---- MODULE Spec2Model ----
(***************************************************************************)
(* Model of the ERP Sonolight back office: the JSON record stores           *)
(* (core/storage/json_repo.py and the legacy core/storage/repo.py), the     *)
(* catalog's smart upsert, quote reconciliation (QuoteService), document     *)
(* numbering and the quote workflow (WorkflowService).                       *)
(*                                                                           *)
(* Python values are modelled as strings and integers: PyNone is None, a      *)
(* dict is a TLA+ function whose DOMAIN is the set of keys it holds.          *)
(***************************************************************************)
EXTENDS Integers, Sequences, FiniteSets, TLC

VARIABLES
    repoKind,   \* which store class the run exercises: "json" | "legacy"
    file,       \* json_repo.JsonRepository: the JSON array persisted in the store file
    ldata,      \* repo.JsonRepository (legacy): self.data, rewritten to disk by _save
    last,       \* the last store operation: its name, argument and result
    catalog,    \* CatalogService: the rows of products.json and services.json
    doc,        \* the quote document handed to recalc_totals
    res1,       \* what recalc_totals(doc) gave
    res2,       \* what recalc_totals gave when applied to res1
    rpc,        \* how far the reconciliation run is: "start" | "once" | "twice"
    entries,    \* AccountingService: the entries persisted in accounting.json
    settings,   \* settings.json: its "numbering" section (empty when the file is missing)
    qobj,       \* q: the Quote object the caller of the services holds
    fl,         \* the last service call: its name, its arguments, whether it returned
    calls,      \* how many calls the run has made
    rawFile,    \* the store file when it holds no JSON array: "" (it holds `file`),
                \* "<missing>" (no file), or the bytes written into it
    baks,       \* the <stem>.<timestamp>.bak.json files, oldest first
    corrupt,    \* the content of <stem>.corrupt.json, "" when there is no such file
    clock,      \* datetime.now(), in seconds
    cfg,        \* JsonRepository.backup_enabled and backup_keep
    priceMap,   \* the mapping handed to the money normalizers
    cents,      \* what the two money normalizers gave for it
    th,         \* per thread: the store call it is in, and where in it
    lock,       \* JsonRepository._lock: the thread that holds it, 0 when free
    start,      \* the content of the store file when the threads were started
    inst,       \* per store instance of repo.JsonRepository: its self.data
    who         \* the store instance the last call went through

repoVars == <<repoKind, file, ldata, last>>

recalcVars == <<catalog, doc, res1, res2, rpc>>

flowVars == <<entries, settings, qobj, fl, calls>>

diskVars == <<rawFile, baks, corrupt, clock, cfg>>

moneyVars == <<priceMap, cents>>

threadVars == <<th, lock, start>>

instVars == <<inst, who>>

vars == <<threadVars, flowVars, repoVars, recalcVars, diskVars, moneyVars, instVars>>

\* None, for the fields that hold a number or a document number
NNone == [none |-> TRUE]

\* no Quote object held
NoQuote ==
    [id |-> "", number |-> NNone, status |-> "NONE", lines |-> <<>>, total_ttc_cent |-> 0,
     payments |-> <<>>]

\* no service call made yet
NoFlow == [op |-> "init", ok |-> TRUE, qid |-> "", a |-> 0]

\* the variables of the workflow run while another run is explored
FlowIdle ==
    /\ entries = <<>>
    /\ settings = <<>>
    /\ qobj = NoQuote
    /\ calls = 0
    /\ fl = NoFlow

\* the files next to the store while another run is explored: the store file
\* holds its JSON array, no backup and no corrupt copy exist; the
\* configuration is the default of JsonRepository.__init__
DiskIdle ==
    /\ rawFile = ""
    /\ baks = <<>>
    /\ corrupt = ""
    /\ clock = 0
    /\ cfg = [backup_enabled |-> TRUE, backup_keep |-> 5]

\* no mapping normalized yet
NotRun == [raised |-> FALSE, cents |-> -1]

NoCents == [quote |-> NotRun, catalog |-> NotRun]

MoneyIdle ==
    /\ priceMap = <<>>
    /\ cents = NoCents

\* no thread started
NoThread == [pc |-> "idle", op |-> "", arg |-> <<>>, out |-> <<>>]

Threads == {1, 2}

ThreadIdle ==
    /\ th = [t \in Threads |-> NoThread]
    /\ lock = 0
    /\ start = <<>>

Instances == {"workflow", "window"}

\* the store instances while another run is explored
InstIdle ==
    /\ inst = [i \in Instances |-> <<>>]
    /\ who = ""

\* a result of recalc_totals: the exception, or the document
NoResult == [raised |-> FALSE, form |-> "none", q |-> <<>>]

\* the variables of the reconciliation run while another run is explored
RecalcIdle ==
    /\ catalog = [products |-> <<>>, services |-> <<>>]
    /\ doc = NoResult
    /\ res1 = NoResult
    /\ res2 = NoResult
    /\ rpc = "idle"

(***************************************************************************)
(* Python helpers                                                           *)
(***************************************************************************)
PyNone == "<None>"

\* dict.get(k): None when the key is absent
Get(d, k) == IF k \in DOMAIN d THEN d[k] ELSE PyNone

\* truthiness of the scalar values the stores see (None and "" are falsy)
Truthy(v) == v \notin {PyNone, ""}

\* str(v)
Str(v) == IF v = PyNone THEN "None" ELSE v

\* str.strip() on the strings of the model
Strip(s) ==
    CASE s = " r1 " -> "r1"
      [] s = " n1 " -> "n1"
      [] s = " "    -> ""
      [] OTHER      -> s

\* {**a, **b}
Merge(a, b) ==
    [k \in DOMAIN a \cup DOMAIN b |-> IF k \in DOMAIN b THEN b[k] ELSE a[k]]

\* d with d[k] = v
SetKey(d, k, v) == [x \in DOMAIN d \cup {k} |-> IF x = k THEN v ELSE d[x]]

\* the list l with l[i] = v
SetAt(l, i, v) == [l EXCEPT ![i] = v]

\* [x for x in l if keep(x)]
FilterSeq(l, keep(_)) ==
    LET idxs == {i \in 1..Len(l) : keep(l[i])}
        nth(k) == CHOOSE i \in idxs : Cardinality({j \in idxs : j <= i}) = k
    IN [k \in 1..Cardinality(idxs) |-> l[nth(k)]]

\* the index of the first element satisfying p, 0 when there is none
FirstIdx(l, p(_)) ==
    IF \E i \in 1..Len(l) : p(l[i])
    THEN CHOOSE i \in 1..Len(l) : p(l[i]) /\ \A j \in 1..(i - 1) : ~p(l[j])
    ELSE 0

(***************************************************************************)
(* Bounds and the records the operations are called with                    *)
(***************************************************************************)
MaxRows == 2

KEY == "id"

Absent == "<absent>"

\* a dict with the given values, the Absent ones left out
Rec(id, ref, name, unit, v) ==
    LET all == [id |-> id, ref |-> ref, name |-> name, unit |-> unit, v |-> v]
    IN [k \in {x \in DOMAIN all : all[x] # Absent} |-> all[k]]

Items ==
    { Rec("a", "r1", "n1", "kg", "1"),
      Rec("b", "r2", "n2", "", "1"),
      Rec("a", Absent, Absent, Absent, "2"),
      Rec("b", " r1 ", "n1", "kg", "2"),
      Rec(PyNone, "r1", "n1", "", "3"),
      Rec(PyNone, PyNone, " n1 ", "kg", "3"),
      Rec(Absent, "r3", "n3", Absent, "4"),
      Rec("", PyNone, "", "", "4") }

Ids == {"a", "b", "u1", "None"}

\* uuid4().hex: an opaque value no record of the store carries (the first
\* unused one of a fixed list stands for it)
Uuids == <<"u1", "u2", "u3", "u4", "u5", "u6">>

FreshUuids(data) ==
    LET unused == {n \in 1..Len(Uuids) : \A i \in 1..Len(data) : Get(data[i], KEY) # Uuids[n]}
    IN {Uuids[n] : n \in {m \in unused : \A k \in unused : m <= k}}

\* the outcome of a store operation: the content left on disk, the value
\* returned (<<>> for None, <<r>> for a record), delete's boolean, the
\* exception raised ("" when none)
Outcome(data, val, flag, err) == [data |-> data, val |-> val, flag |-> flag, err |-> err]

(***************************************************************************)
(* core/storage/json_repo.py                                                *)
(***************************************************************************)
\* any(str(d.get(k)) == str(key) for d in data)
HasKeyStr(data, key) == \E i \in 1..Len(data) : Str(Get(data[i], KEY)) = Str(key)

Add(data, item, u) ==
    LET record == IF ~Truthy(Get(item, KEY)) THEN SetKey(item, KEY, u) ELSE item
    IN IF HasKeyStr(data, record[KEY])
       THEN Outcome(data, <<>>, FALSE, "ValueError")
       ELSE Outcome(Append(data, record), <<record>>, FALSE, "")

UpdateRaisingKeyError(data, item) ==
    LET obj_id == Get(item, KEY)
        idx == FirstIdx(data, LAMBDA e : Str(Get(e, KEY)) = Str(obj_id))
    IN IF ~Truthy(obj_id) THEN Outcome(data, <<>>, FALSE, "ValueError")
       ELSE IF idx = 0 THEN Outcome(data, <<>>, FALSE, "KeyError")
       ELSE LET merged == Merge(data[idx], item)
            IN Outcome(SetAt(data, idx, merged), <<merged>>, FALSE, "")

Update(data, item) ==
    LET obj_id == Get(item, KEY)
        idx == FirstIdx(data, LAMBDA e : Str(Get(e, KEY)) = Str(obj_id))
    IN IF ~Truthy(obj_id) THEN Outcome(data, <<>>, FALSE, "ValueError")
       ELSE IF idx = 0 THEN Outcome(data, <<>>, FALSE, "ValueError")
       ELSE LET merged == Merge(data[idx], item)
            IN Outcome(SetAt(data, idx, merged), <<merged>>, FALSE, "")

\* try: return self.update(item)  except ValueError: return self.add(item)
Upsert(data, item, u) ==
    LET r == Update(data, item)
    IN IF r.err = "ValueError" THEN Add(data, item, u) ELSE r

Delete(data, obj_id) ==
    LET new_data == FilterSeq(data, LAMBDA d : Str(Get(d, KEY)) # Str(obj_id))
        changed == Len(new_data) # Len(data)
    IN Outcome(IF changed THEN new_data ELSE data, <<>>, changed, "")

(***************************************************************************)
(* core/services/catalog_service.py: the smart upsert                       *)
(***************************************************************************)
\* x or ""
OrEmpty(v) == IF Truthy(v) THEN v ELSE ""

_match_row(row, probe) ==
    IF Truthy(Get(probe, "id")) /\ Str(Get(row, "id")) = Str(probe["id"]) THEN TRUE
    ELSE IF /\ Truthy(Get(probe, "ref")) /\ Truthy(Get(row, "ref"))
            /\ Strip(Str(row["ref"])) = Strip(Str(probe["ref"])) THEN TRUE
    ELSE LET name == Strip(OrEmpty(Get(probe, "name")))
             unit == Strip(OrEmpty(Get(probe, "unit")))
         IN IF name # "" /\ unit # ""
            THEN /\ Strip(OrEmpty(Get(row, "name"))) = name
                 /\ Strip(OrEmpty(Get(row, "unit"))) = unit
            ELSE FALSE

\* the index of the only row with that name, 0 when none or several
_find_unique_by_name(rows, name) ==
    LET idxs == {i \in 1..Len(rows) : Strip(OrEmpty(Get(rows[i], "name"))) = Strip(name)}
    IN IF Cardinality(idxs) = 1 THEN CHOOSE i \in idxs : TRUE ELSE 0

_smart_upsert(rows, payload, u) ==
    LET i == FirstIdx(rows, LAMBDA r : _match_row(r, payload))
        name == Strip(OrEmpty(Get(payload, "name")))
        idx == IF name # "" THEN _find_unique_by_name(rows, name) ELSE 0
    IN IF i # 0
       THEN LET merged == Merge(rows[i], payload)
            IN Outcome(SetAt(rows, i, merged), <<merged>>, FALSE, "")
       ELSE IF idx # 0
       THEN LET merged == Merge(rows[idx], payload)
            IN Outcome(SetAt(rows, idx, merged), <<merged>>, FALSE, "")
       ELSE Add(rows, payload, u)

\* update_product / update_service hand over a payload holding every key
\* (model_dump of the catalog model, or the form's dict), one of id/ref/name set
CatalogPayloads ==
    {p \in Items : /\ {"id", "ref", "name", "unit"} \subseteq DOMAIN p
                   /\ (Truthy(p["id"]) \/ Truthy(p["ref"]) \/ Truthy(p["name"]))}

(***************************************************************************)
(* core/storage/repo.py (legacy store of clients, invoices, accounting)     *)
(***************************************************************************)
_index_of_key(data, key_value) == FirstIdx(data, LAMBDA d : Get(d, KEY) = key_value)

LegacyAdd(data, item) == Outcome(Append(data, item), <<>>, FALSE, "")

LegacyUpdate(data, item) ==
    LET idx == _index_of_key(data, Get(item, KEY))
    IN IF idx = 0 THEN Outcome(data, <<>>, FALSE, "KeyError")
       ELSE Outcome(SetAt(data, idx, item), <<>>, FALSE, "")

LegacyUpsert(data, item) ==
    LET key_value == Get(item, KEY)
        idx == _index_of_key(data, key_value)
    IN IF key_value = PyNone THEN LegacyAdd(data, item)
       ELSE IF idx = 0 THEN LegacyAdd(data, item)
       ELSE Outcome(SetAt(data, idx, item), <<>>, FALSE, "")

LegacyDelete(data, key_value) ==
    LET idx == _index_of_key(data, key_value)
    IN IF idx = 0 THEN Outcome(data, <<>>, FALSE, "KeyError")
       ELSE Outcome(SubSeq(data, 1, idx - 1) \o SubSeq(data, idx + 1, Len(data)),
                    <<>>, FALSE, "")

(***************************************************************************)
(* The record stores as a state machine                                     *)
(***************************************************************************)
NoOp == [op |-> "init", arg |-> <<>>, val |-> <<>>, flag |-> FALSE, err |-> ""]

Done(name, arg, r) ==
    [op |-> name, arg |-> arg, val |-> r.val, flag |-> r.flag, err |-> r.err]

RepoInit ==
    /\ repoKind \in {"json", "legacy"}
    /\ file = <<>>
    /\ ldata = <<>>
    /\ last = NoOp
    /\ RecalcIdle
    /\ FlowIdle
    /\ DiskIdle
    /\ MoneyIdle
    /\ ThreadIdle
    /\ InstIdle

RepoAdd ==
    /\ repoKind = "json"
    /\ \E item \in Items, u \in FreshUuids(file) :
          LET r == Add(file, item, u)
          IN /\ Len(r.data) <= MaxRows
             /\ file' = r.data
             /\ last' = Done("add", <<item>>, r)
    /\ UNCHANGED <<diskVars, moneyVars, threadVars, instVars, repoKind, ldata, recalcVars, flowVars>>

RepoUpdate ==
    /\ repoKind = "json"
    /\ \E item \in Items :
          LET r == Update(file, item)
          IN /\ file' = r.data
             /\ last' = Done("update", <<item>>, r)
    /\ UNCHANGED <<diskVars, moneyVars, threadVars, instVars, repoKind, ldata, recalcVars, flowVars>>

RepoUpsert ==
    /\ repoKind = "json"
    /\ \E item \in Items, u \in FreshUuids(file) :
          LET r == Upsert(file, item, u)
          IN /\ Len(r.data) <= MaxRows
             /\ file' = r.data
             /\ last' = Done("upsert", <<item>>, r)
    /\ UNCHANGED <<diskVars, moneyVars, threadVars, instVars, repoKind, ldata, recalcVars, flowVars>>

RepoDelete ==
    /\ repoKind = "json"
    /\ \E id \in Ids :
          LET r == Delete(file, id)
          IN /\ file' = r.data
             /\ last' = Done("delete", <<id>>, r)
    /\ UNCHANGED <<diskVars, moneyVars, threadVars, instVars, repoKind, ldata, recalcVars, flowVars>>

\* CatalogService.update_product / update_service
CatalogUpdate ==
    /\ repoKind = "json"
    /\ \E payload \in CatalogPayloads, u \in FreshUuids(file) :
          LET r == _smart_upsert(file, payload, u)
          IN /\ Len(r.data) <= MaxRows
             /\ file' = r.data
             /\ last' = Done("smart_upsert", <<payload>>, r)
    /\ UNCHANGED <<diskVars, moneyVars, threadVars, instVars, repoKind, ldata, recalcVars, flowVars>>

LegacyRepoAdd ==
    /\ repoKind = "legacy"
    /\ \E item \in Items :
          LET r == LegacyAdd(ldata, item)
          IN /\ Len(r.data) <= MaxRows
             /\ ldata' = r.data
             /\ last' = Done("add", <<item>>, r)
    /\ UNCHANGED <<diskVars, moneyVars, threadVars, instVars, repoKind, file, recalcVars, flowVars>>

LegacyRepoUpdate ==
    /\ repoKind = "legacy"
    /\ \E item \in Items :
          LET r == LegacyUpdate(ldata, item)
          IN /\ ldata' = r.data
             /\ last' = Done("update", <<item>>, r)
    /\ UNCHANGED <<diskVars, moneyVars, threadVars, instVars, repoKind, file, recalcVars, flowVars>>

LegacyRepoUpsert ==
    /\ repoKind = "legacy"
    /\ \E item \in Items :
          LET r == LegacyUpsert(ldata, item)
          IN /\ Len(r.data) <= MaxRows
             /\ ldata' = r.data
             /\ last' = Done("upsert", <<item>>, r)
    /\ UNCHANGED <<diskVars, moneyVars, threadVars, instVars, repoKind, file, recalcVars, flowVars>>

LegacyRepoDelete ==
    /\ repoKind = "legacy"
    /\ \E id \in Ids :
          LET r == LegacyDelete(ldata, id)
          IN /\ ldata' = r.data
             /\ last' = Done("delete", <<id>>, r)
    /\ UNCHANGED <<diskVars, moneyVars, threadVars, instVars, repoKind, file, recalcVars, flowVars>>

RepoNext ==
    \/ RepoAdd \/ RepoUpdate \/ RepoUpsert \/ RepoDelete \/ CatalogUpdate
    \/ LegacyRepoAdd \/ LegacyRepoUpdate \/ LegacyRepoUpsert \/ LegacyRepoDelete

SpecRepo == RepoInit /\ [][RepoNext]_vars

(***************************************************************************)
(* The store file and its siblings: what _read_raw and _write_raw of        *)
(* json_repo.py, and _load and _save of repo.py, do to the files            *)
(***************************************************************************)
MaxKeep == 2
MaxClock == 2
MaxOps == 4

Missing == "<missing>"

\* what lies in a store file after it was written from outside the store:
\* text that is no JSON, bytes that are no UTF-8
InvalidText == {"{oops"}

InvalidBytes == {"<ff fe>"}

\* what json.dump leaves in the file when it raises half-way
Partial == "[{<cut>"

\* a datetime value, and isoformat() of it
Now == "<datetime 2026-11-03 10:00:00>"

DateKeys == {"created_at", "date"}

isoformat(v) == IF v = Now THEN "2026-11-03T10:00:00" ELSE v

\* the record as json.loads(json.dumps(record, default=_json_default)) gives it
JsonRecord(record) ==
    [k \in DOMAIN record |-> IF k \in DateKeys THEN isoformat(record[k]) ELSE record[k]]

JsonRows(data) == [i \in 1..Len(data) |-> JsonRecord(data[i])]

\* json.dump(self.data, f) of repo.py, which passes no default: does it raise
Unserializable(data) ==
    \E i \in 1..Len(data) : \E k \in DOMAIN data[i] \cap DateKeys : data[i][k] = Now

\* the records the stores of this run are called with
DiskItems ==
    { Rec("a", "r1", "n1", "kg", "1"),
      Rec("a", Absent, Absent, Absent, "2"),
      Rec(Absent, "r3", "n3", Absent, "4"),
      [id |-> "b", created_at |-> Now] }

\* the store file as a value: its rows, or what else it holds
Snapshot(rows, bytes) == [rows |-> rows, raw |-> bytes]

\* JsonRepository._read_raw: the rows, the corrupt copy left behind, the exception
_read_raw(rows, bytes, copy) ==
    IF bytes = "" THEN [rows |-> rows, corrupt |-> copy, err |-> ""]
    ELSE IF bytes = Missing THEN [rows |-> <<>>, corrupt |-> copy, err |-> ""]
    ELSE IF bytes \in InvalidBytes
    THEN [rows |-> <<>>, corrupt |-> copy, err |-> "UnicodeDecodeError"]
    ELSE [rows |-> <<>>, corrupt |-> bytes, err |-> ""]

\* shutil.copy2(self.filepath, backup), the name of the backup made of ts
PutBackup(files, ts, content) ==
    IF files # <<>> /\ files[Len(files)].ts = ts
    THEN [files EXCEPT ![Len(files)] = [ts |-> ts, content |-> content]]
    ELSE Append(files, [ts |-> ts, content |-> content])

\* JsonRepository._rotate_backups
_rotate_backups(files, config) ==
    IF ~config.backup_enabled \/ config.backup_keep <= 0 THEN files
    ELSE IF Len(files) > config.backup_keep
    THEN SubSeq(files, Len(files) - config.backup_keep + 1, Len(files))
    ELSE files

\* _write_raw without the comparison with the content of the file: it backs
\* up and writes whatever it is given
WriteAlways(rows, bytes, files, data, ts, config) ==
    [rows |-> JsonRows(data), raw |-> "",
     baks |-> IF config.backup_enabled /\ bytes # Missing
              THEN _rotate_backups(PutBackup(files, ts, Snapshot(rows, bytes)), config)
              ELSE files]

\* _write_raw with the copy made after the file was written: the backup then
\* holds the new content
WriteThenBackup(rows, bytes, files, data, ts, config) ==
    IF bytes = "" /\ rows = JsonRows(data)
    THEN [rows |-> rows, raw |-> bytes, baks |-> files]
    ELSE [rows |-> JsonRows(data), raw |-> "",
          baks |-> IF config.backup_enabled /\ bytes # Missing
                   THEN _rotate_backups(PutBackup(files, ts, Snapshot(JsonRows(data), "")), config)
                   ELSE files]

\* JsonRepository._write_raw(data) at the time ts: the file and the backups left
_write_raw(rows, bytes, files, data, ts, config) ==
    IF bytes = "" /\ rows = JsonRows(data)
    THEN [rows |-> rows, raw |-> bytes, baks |-> files]
    ELSE [rows |-> JsonRows(data), raw |-> "",
          baks |-> IF config.backup_enabled /\ bytes # Missing
                   THEN _rotate_backups(PutBackup(files, ts, Snapshot(rows, bytes)), config)
                   ELSE files]

DiskIds == {"a", "b", "u1", "u2"}

\* what a call that _read_raw made raise gives; r otherwise
Guarded(rd, r) == IF rd.err # "" THEN Outcome(rd.rows, <<>>, FALSE, rd.err) ELSE r

\* does the call reach _write_raw
Writes(name, r) ==
    /\ name \in {"add", "update", "upsert", "delete"}
    /\ r.err = ""
    /\ (name = "delete" => r.flag)

\* the files as a call leaves them, w being what _write_raw left
JsonLeaves(name, arg, rd, r, w) ==
    /\ calls < MaxOps
    /\ calls' = calls + 1
    /\ Len(w.rows) <= MaxRows
    /\ file' = w.rows
    /\ rawFile' = w.raw
    /\ baks' = w.baks
    /\ corrupt' = rd.corrupt
    /\ last' = Done(name, arg, r)
    /\ UNCHANGED <<repoKind, ldata, clock, cfg, recalcVars, moneyVars, threadVars, instVars,
                   entries, settings, qobj, fl>>

\* a call of json_repo.JsonRepository, r being what it computes from the rows read
JsonStep(name, arg, rd, r) ==
    JsonLeaves(name, arg, rd, r,
               IF Writes(name, r)
               THEN _write_raw(file, rawFile, baks, r.data, clock, cfg)
               ELSE [rows |-> file, raw |-> rawFile, baks |-> baks])

JsonCall(name, arg, rd, r) == JsonStep(name, arg, rd, Guarded(rd, r))

\* JsonRepository.get_by_id
get_by_id(rows, obj_id) ==
    LET i == FirstIdx(rows, LAMBDA it : Str(Get(it, KEY)) = Str(obj_id))
    IN Outcome(rows, IF i = 0 THEN <<>> ELSE <<rows[i]>>, FALSE, "")

DiskInit ==
    /\ repoKind \in {"json", "legacy"}
    /\ file = <<>>
    /\ ldata = <<>>
    /\ last = NoOp
    /\ rawFile = ""
    /\ baks = <<>>
    /\ corrupt = ""
    /\ clock = 0
    /\ cfg \in [backup_enabled : BOOLEAN, backup_keep : 0..MaxKeep]
    /\ RecalcIdle
    /\ FlowIdle
    /\ MoneyIdle
    /\ ThreadIdle
    /\ InstIdle

DiskAdd ==
    /\ repoKind = "json"
    /\ \E rd \in {_read_raw(file, rawFile, corrupt)} :
       \E item \in DiskItems, u \in FreshUuids(rd.rows) :
           JsonCall("add", <<item>>, rd, Add(rd.rows, item, u))

DiskUpdate ==
    /\ repoKind = "json"
    /\ \E rd \in {_read_raw(file, rawFile, corrupt)} :
       \E item \in DiskItems :
           JsonCall("update", <<item>>, rd, Update(rd.rows, item))

DiskUpsert ==
    /\ repoKind = "json"
    /\ \E rd \in {_read_raw(file, rawFile, corrupt)} :
       \E item \in DiskItems, u \in FreshUuids(rd.rows) :
           JsonCall("upsert", <<item>>, rd, Upsert(rd.rows, item, u))

DiskDelete ==
    /\ repoKind = "json"
    /\ \E rd \in {_read_raw(file, rawFile, corrupt)} :
       \E id \in DiskIds :
           JsonCall("delete", <<id>>, rd, Delete(rd.rows, id))

\* JsonRepository.list_all
DiskList ==
    /\ repoKind = "json"
    /\ \E rd \in {_read_raw(file, rawFile, corrupt)} :
           JsonCall("list_all", <<>>, rd, Outcome(rd.rows, rd.rows, FALSE, ""))

\* JsonRepository.get_by_id
DiskGet ==
    /\ repoKind = "json"
    /\ \E rd \in {_read_raw(file, rawFile, corrupt)} :
       \E id \in DiskIds :
           JsonCall("get_by_id", <<id>>, rd, get_by_id(rd.rows, id))

\* the files and self.data as a call of repo.JsonRepository leaves them: _save
\* runs when the call did not raise before it, and raises on a datetime
LegacyLeaves(name, arg, r, saves) ==
    /\ calls < MaxOps
    /\ calls' = calls + 1
    /\ Len(r.data) <= MaxRows
    /\ ldata' = r.data
    /\ file' = IF ~saves THEN file ELSE IF Unserializable(r.data) THEN <<>> ELSE r.data
    /\ rawFile' = IF ~saves THEN rawFile ELSE IF Unserializable(r.data) THEN Partial ELSE ""
    /\ last' = Done(name, arg, IF saves /\ Unserializable(r.data)
                               THEN [r EXCEPT !.err = "TypeError"] ELSE r)
    /\ UNCHANGED <<repoKind, baks, corrupt, clock, cfg, recalcVars, moneyVars, threadVars, instVars,
                   entries, settings, qobj, fl>>

LegacyStep(name, arg, r) == LegacyLeaves(name, arg, r, name # "list_all" /\ r.err = "")

LegacyDiskAdd ==
    /\ repoKind = "legacy"
    /\ \E item \in DiskItems : LegacyStep("add", <<item>>, LegacyAdd(ldata, item))

LegacyDiskUpdate ==
    /\ repoKind = "legacy"
    /\ \E item \in DiskItems : LegacyStep("update", <<item>>, LegacyUpdate(ldata, item))

LegacyDiskUpsert ==
    /\ repoKind = "legacy"
    /\ \E item \in DiskItems : LegacyStep("upsert", <<item>>, LegacyUpsert(ldata, item))

LegacyDiskDelete ==
    /\ repoKind = "legacy"
    /\ \E id \in DiskIds : LegacyStep("delete", <<id>>, LegacyDelete(ldata, id))

\* repo.JsonRepository.list_all: list(self.data)
LegacyDiskList ==
    /\ repoKind = "legacy"
    /\ LegacyStep("list_all", <<>>, Outcome(ldata, ldata, FALSE, ""))

\* a second passes
Tick ==
    /\ clock < MaxClock
    /\ clock' = clock + 1
    /\ last' = [NoOp EXCEPT !.op = "tick"]
    /\ UNCHANGED <<repoKind, file, ldata, rawFile, baks, corrupt, cfg, recalcVars,
                   moneyVars, threadVars, instVars, flowVars>>

\* something other than the store writes into the store file
Scribble ==
    /\ rawFile = ""
    /\ \E bytes \in InvalidText \cup InvalidBytes : rawFile' = bytes
    /\ file' = <<>>
    /\ last' = [NoOp EXCEPT !.op = "scribble"]
    /\ UNCHANGED <<repoKind, ldata, baks, corrupt, clock, cfg, recalcVars, moneyVars, threadVars, instVars,
                   flowVars>>

\* the store file is removed
Unlink ==
    /\ rawFile # Missing
    /\ rawFile' = Missing
    /\ file' = <<>>
    /\ last' = [NoOp EXCEPT !.op = "unlink"]
    /\ UNCHANGED <<repoKind, ldata, baks, corrupt, clock, cfg, recalcVars, moneyVars, threadVars, instVars,
                   flowVars>>

\* a service builds its store anew on the file: __init__ writes [] when there
\* is no file, and repo.JsonRepository loads self.data
Reopen ==
    /\ file' = IF rawFile = Missing THEN <<>> ELSE file
    /\ rawFile' = IF rawFile = Missing THEN "" ELSE rawFile
    /\ ldata' = IF repoKind = "legacy" THEN (IF rawFile = "" THEN file ELSE <<>>) ELSE ldata
    /\ last' = [NoOp EXCEPT !.op = "open"]
    /\ UNCHANGED <<repoKind, baks, corrupt, clock, cfg, recalcVars, moneyVars, threadVars, instVars, flowVars>>

DiskNext ==
    \/ DiskAdd
    \/ DiskUpdate
    \/ DiskUpsert
    \/ DiskDelete
    \/ DiskList
    \/ DiskGet
    \/ LegacyDiskAdd
    \/ LegacyDiskUpdate
    \/ LegacyDiskUpsert
    \/ LegacyDiskDelete
    \/ LegacyDiskList
    \/ Tick
    \/ Scribble
    \/ Unlink
    \/ Reopen

SpecDisk == DiskInit /\ [][DiskNext]_vars

(***************************************************************************)
(* Numbers and text as the price and quantity fields hold them              *)
(***************************************************************************)
\* a Python int
NInt(n) == [int |-> n]

\* a Python float or Decimal with at most three decimals, in thousandths
NMilli(m) == [milli |-> m]

\* a Python str, as the sequence of its characters
NText(cs) == [chars |-> cs]

\* float("nan"), which json.load accepts as NaN
NNaN == [nan |-> TRUE]

IsInt(v) == "int" \in DOMAIN v
IsMilli(v) == "milli" \in DOMAIN v
IsText(v) == "chars" \in DOMAIN v

\* payload[k] not in (None, "")
NotNoneOrEmpty(v) == v # NNone /\ v # NText(<<>>)

\* integer quotient rounding toward zero, as int() truncates
TruncDiv(a, b) == IF a >= 0 THEN a \div b ELSE -((-a) \div b)

\* round(a / b), ties to the even neighbour (Python 3 round)
RoundDiv(a, b) ==
    LET q == a \div b
        r == a % b
    IN IF 2 * r < b THEN q
       ELSE IF 2 * r > b THEN q + 1
       ELSE IF q % 2 = 0 THEN q ELSE q + 1

DigitChars == <<"0", "1", "2", "3", "4", "5", "6", "7", "8", "9">>

IsDigit(c) == \E i \in 1..10 : DigitChars[i] = c

DigitVal(c) == (CHOOSE i \in 1..10 : DigitChars[i] = c) - 1

AllDigits(cs) == \A i \in 1..Len(cs) : IsDigit(cs[i])

RECURSIVE DigitsVal(_)
DigitsVal(cs) ==
    IF cs = <<>> THEN 0
    ELSE 10 * DigitsVal(SubSeq(cs, 1, Len(cs) - 1)) + DigitVal(cs[Len(cs)])

\* str.strip() on characters
RECURSIVE StripChars(_)
StripChars(cs) ==
    IF cs = <<>> THEN cs
    ELSE IF Head(cs) = " " THEN StripChars(Tail(cs))
    ELSE IF cs[Len(cs)] = " " THEN StripChars(SubSeq(cs, 1, Len(cs) - 1))
    ELSE cs

\* the result of a conversion that may raise
Parsed(n) == [ok |-> TRUE, n |-> n]
Unparsed == [ok |-> FALSE, n |-> 0]

\* int("...") : optional sign, decimal digits, surrounding blanks
SignedDigits(neg, body) ==
    IF body # <<>> /\ AllDigits(body)
    THEN Parsed(IF neg THEN -DigitsVal(body) ELSE DigitsVal(body))
    ELSE Unparsed

IntOfStripped(t) ==
    SignedDigits(t # <<>> /\ Head(t) = "-",
                 IF t # <<>> /\ Head(t) \in {"-", "+"} THEN Tail(t) ELSE t)

IntOfChars(cs) == IntOfStripped(StripChars(cs))

\* int(v)
PyInt(v) ==
    IF IsInt(v) THEN Parsed(v.int)
    ELSE IF IsMilli(v) THEN Parsed(TruncDiv(v.milli, 1000))
    ELSE IF IsText(v) THEN IntOfChars(v.chars)
    ELSE Unparsed

\* the position of the first "." of cs, 0 when there is none
DotAt(cs) ==
    IF \E i \in 1..Len(cs) : cs[i] = "."
    THEN CHOOSE i \in 1..Len(cs) : cs[i] = "." /\ \A j \in 1..(i - 1) : cs[j] # "."
    ELSE 0

\* the Decimal made of a sign, an integer part and at most three decimals
DecimalOfParts(neg, whole, frac) ==
    IF /\ AllDigits(whole) /\ AllDigits(frac)
       /\ Len(whole) + Len(frac) > 0
       /\ Len(frac) <= 3
    THEN Parsed((IF neg THEN -1 ELSE 1)
                * (1000 * DigitsVal(whole)
                   + DigitsVal(frac \o SubSeq(<<"0", "0", "0">>, 1, 3 - Len(frac)))))
    ELSE Unparsed

DecimalOfBody(neg, body, dot) ==
    DecimalOfParts(neg,
                   IF dot = 0 THEN body ELSE SubSeq(body, 1, dot - 1),
                   IF dot = 0 THEN <<>> ELSE SubSeq(body, dot + 1, Len(body)))

DecimalOfSigned(neg, body) == DecimalOfBody(neg, body, DotAt(body))

\* Decimal("...") of a cleaned text with at most three decimals, in thousandths
DecimalOfChars(cs) ==
    DecimalOfSigned(cs # <<>> /\ Head(cs) = "-",
                    IF cs # <<>> /\ Head(cs) = "-" THEN Tail(cs) ELSE cs)

\* re.sub(r"[^0-9,.\-]", "", s).replace(",", ".")
RECURSIVE CleanChars(_)
CleanChars(cs) ==
    IF cs = <<>> THEN <<>>
    ELSE LET c == Head(cs)
         IN (IF IsDigit(c) \/ c \in {".", "-"} THEN <<c>>
             ELSE IF c = "," THEN <<".">>
             ELSE <<>>) \o CleanChars(Tail(cs))

\* the Decimal of a text, None when Decimal() rejects it
DecOrNone(d) == IF d.ok THEN [kind |-> "dec", m |-> d.n] ELSE [kind |-> "none", m |-> 0]

\* _clean_to_decimal(val): the Decimal in thousandths; kind is "none" for
\* None, "nan" for a Decimal that is not a number, "dec" otherwise
_clean_to_decimal(val) ==
    IF ~NotNoneOrEmpty(val) THEN [kind |-> "none", m |-> 0]
    ELSE IF IsInt(val) THEN [kind |-> "dec", m |-> 1000 * val.int]
    ELSE IF IsMilli(val) THEN [kind |-> "dec", m |-> val.milli]
    ELSE IF val = NNaN THEN [kind |-> "nan", m |-> 0]
    ELSE DecOrNone(DecimalOfChars(CleanChars(val.chars)))

Max(a, b) == IF b > a THEN b ELSE a

CentsKeys == <<"price_cents", "price_cent", "price_ttc_cent", "price_ht_cent",
               "unit_price_cent", "unit_price_cents">>

EuroKeys == <<"price_eur", "price", "unit_price_eur", "unit_price", "priceTtcEur", "ttc_eur">>

\* the keys whose lower-cased name contains "price", in the order the line
\* dicts of the model hold them
PriceLikeKeys == <<"unit_price_ttc_cent", "price_cents", "price_cent", "price_eur", "price">>

\* the keys of ks, in order, that payload holds with a value other than None and ""
Present(payload, ks) ==
    LET idxs == {i \in 1..Len(ks) : ks[i] \in DOMAIN payload /\ NotNoneOrEmpty(payload[ks[i]])}
        nth(k) == CHOOSE i \in idxs : Cardinality({j \in idxs : j <= i}) = k
    IN [k \in 1..Cardinality(idxs) |-> payload[ks[nth(k)]]]

\* the first conversion of rs that did not raise
RECURSIVE FirstOk(_)
FirstOk(rs) ==
    IF rs = <<>> THEN Unparsed
    ELSE IF Head(rs).ok THEN Head(rs)
    ELSE FirstOk(Tail(rs))

\* the first value of vals that int() accepts
FirstInt(vals) == FirstOk([i \in 1..Len(vals) |-> PyInt(vals[i])])

\* the first Decimal of ds that is not None
RECURSIVE FirstSome(_)
FirstSome(ds) ==
    IF ds = <<>> THEN [kind |-> "none", m |-> 0]
    ELSE IF Head(ds).kind # "none" THEN Head(ds)
    ELSE FirstSome(Tail(ds))

\* the first value of vals that _clean_to_decimal turns into a Decimal
FirstDecimal(vals) == FirstSome([i \in 1..Len(vals) |-> _clean_to_decimal(vals[i])])

\* max(0, int(...)) of the centimes found, max(0, int(d * 100)) of the euros
PriceOf(c, d) ==
    IF c.ok THEN [raised |-> FALSE, cents |-> Max(0, c.n)]
    ELSE IF d.kind = "nan" THEN [raised |-> TRUE, cents |-> 0]
    ELSE IF d.kind = "dec" THEN [raised |-> FALSE, cents |-> Max(0, TruncDiv(d.m * 100, 1000))]
    ELSE [raised |-> FALSE, cents |-> 0]

\* _price_to_cents(payload): the cents, or raised when int(d * 100) meets a
\* NaN; the keys in centimes, then the keys in euros, then any key whose
\* name contains "price"
_price_to_cents(payload) ==
    PriceOf(FirstInt(Present(payload, CentsKeys)),
            FirstDecimal(Present(payload, EuroKeys) \o Present(payload, PriceLikeKeys)))

\* float("...") of a text with at most three decimals (no exponent), in thousandths
FloatOfChars(cs) == DecimalOfChars(StripChars(cs))

\* max(0.0, float(text)), 1.0 when float() raises
QtyOf(f) == IF f.ok THEN Max(0, f.n) ELSE 1000

\* _qty_to_float(v), in thousandths
_qty_to_float(v) ==
    IF ~NotNoneOrEmpty(v) THEN 1000
    ELSE IF IsInt(v) THEN Max(0, 1000 * v.int)
    ELSE IF IsMilli(v) THEN Max(0, v.milli)
    ELSE IF v = NNaN THEN 0
    ELSE QtyOf(FloatOfChars(v.chars))

(***************************************************************************)
(* core/services/catalog_service.py: reading the catalog                    *)
(***************************************************************************)
\* str.casefold() on the strings of the model
Casefold(s) ==
    CASE s = "Sono" -> "sono"
      [] s = "DJ"   -> "dj"
      [] OTHER      -> s

\* a or b, on text
Or(a, b) == IF Truthy(a) THEN a ELSE b

\* pydantic's validation of an int field (lax mode)
PydInt(v) ==
    IF IsInt(v) THEN Parsed(v.int)
    ELSE IF IsMilli(v) /\ v.milli % 1000 = 0 THEN Parsed(v.milli \div 1000)
    ELSE IF IsText(v) THEN IntOfChars(v.chars)
    ELSE Unparsed

\* pydantic's validation of a float field, in thousandths
PydFloat(v) ==
    IF IsInt(v) THEN Parsed(1000 * v.int)
    ELSE IF IsMilli(v) THEN Parsed(v.milli)
    ELSE IF IsText(v) THEN FloatOfChars(v.chars)
    ELSE Unparsed

\* CatalogService._parse_price_to_cents
CatalogCentsKeys == <<"price_cents", "price_cent", "price_ttc_cent", "price_ht_cent">>

CatalogEuroKeys == <<"price", "price_eur">>

\* the euros of one price / price_eur value, in thousandths
CommaToDot(t) == [i \in 1..Len(t) |-> IF t[i] = "," THEN "." ELSE t[i]]

CatalogEuros(v) ==
    IF IsInt(v) THEN Parsed(1000 * v.int)
    ELSE IF IsMilli(v) THEN Parsed(v.milli)
    ELSE IF IsText(v) THEN DecimalOfChars(CommaToDot(StripChars(v.chars)))
    ELSE Unparsed

\* the keys of ks, in order, that payload holds with a value other than None
PresentNotNone(payload, ks) ==
    LET idxs == {i \in 1..Len(ks) : ks[i] \in DOMAIN payload /\ payload[ks[i]] # NNone}
        nth(k) == CHOOSE i \in idxs : Cardinality({j \in idxs : j <= i}) = k
    IN [k \in 1..Cardinality(idxs) |-> payload[ks[nth(k)]]]

\* max(0, int(...)) of the centimes found, max(0, int(round(euros * 100)))
CatalogPriceOf(c, e) ==
    IF c.ok THEN Max(0, c.n)
    ELSE IF e.ok THEN Max(0, RoundDiv(e.n * 100, 1000))
    ELSE 0

\* the euros of each value, in order
EurosOf(vals) == [i \in 1..Len(vals) |-> CatalogEuros(vals[i])]

_parse_price_to_cents(payload) ==
    CatalogPriceOf(FirstInt(PresentNotNone(payload, CatalogCentsKeys)),
                   FirstOk(EurosOf(PresentNotNone(payload, CatalogEuroKeys))))

\* the Product / Service fields, given the validated name and price_cents
HydrateOf(d, name, pcv, label, unit) ==
    IF name = PyNone \/ ~pcv.ok
    THEN [ok |-> FALSE, obj |-> <<>>]
    ELSE [ok |-> TRUE,
          obj |-> [id |-> Get(d, "id"),
                   ref |-> Get(d, "ref"),
                   name |-> name,
                   label |-> IF label \in {PyNone, ""} THEN name ELSE label,
                   description |-> Get(d, "description"),
                   price_cents |-> NInt(IF pcv.n = 0 THEN _parse_price_to_cents(d) ELSE pcv.n),
                   unit |-> IF unit = PyNone THEN "" ELSE unit]]

\* CatalogService._hydrate followed by model_dump: the Product / Service
\* fields of a stored row; ok is FALSE when validation raises
_hydrate(d) ==
    HydrateOf(d,
              IF "name" \in DOMAIN d THEN d["name"] ELSE "",
              IF "price_cents" \in DOMAIN d THEN PydInt(d["price_cents"]) ELSE Parsed(0),
              Get(d, "label"),
              IF "unit" \in DOMAIN d THEN d["unit"] ELSE "")

\* _hydrate_list(rows): the hydration of every row, in order
_hydrate_list(rows) == [i \in 1..Len(rows) |-> _hydrate(rows[i])]

\* get_product / get_service: JsonRepository.get_by_id, then _hydrate of the
\* row found (hyd is the hydration of rows); not ok when no row has the id
GetCatalogItem(rows, hyd, item_id) ==
    LET i == FirstIdx(rows, LAMBDA it : Str(Get(it, "id")) = Str(item_id))
    IN IF i = 0 THEN [ok |-> FALSE, obj |-> <<>>] ELSE hyd[i]

\* list_products / list_services raise when one row fails validation
ListRaises(hyd) == \E i \in 1..Len(hyd) : ~hyd[i].ok

(***************************************************************************)
(* core/services/quote_service.py: catalog lookup and line hydration        *)
(***************************************************************************)
Miss == [kind |-> "none", src |-> <<>>]
Hit(obj) == [kind |-> "hit", src |-> obj]
Raised == [kind |-> "raise", src |-> <<>>]

\* the first product, then the first service, whose hydrated form satisfies p
FirstMatch(hp, hs, p(_)) ==
    LET ip == FirstIdx(hp, LAMBDA h : p(h.obj))
        is == FirstIdx(hs, LAMBDA h : p(h.obj))
    IN IF ListRaises(hp) THEN Raised
       ELSE IF ip # 0 THEN Hit(hp[ip].obj)
       ELSE IF ListRaises(hs) THEN Raised
       ELSE IF is # 0 THEN Hit(hs[is].obj)
       ELSE Miss

\* _find_catalog_match, given the hydration hp, hs of the catalog rows
MatchIn(line, products, services, hp, hs) ==
    LET pid == Get(line, "product_id")
        sid == Get(line, "service_id")
        byPid == IF Truthy(pid) THEN GetCatalogItem(products, hp, pid)
                 ELSE [ok |-> FALSE, obj |-> <<>>]
        bySid == IF Truthy(sid) THEN GetCatalogItem(services, hs, sid)
                 ELSE [ok |-> FALSE, obj |-> <<>>]
        ref == Strip(OrEmpty(Get(line, "ref")))
        lbl == Casefold(Strip(OrEmpty(Or(Get(line, "label"), Get(line, "name")))))
        byRef == IF ref # ""
                 THEN FirstMatch(hp, hs, LAMBDA o : Strip(OrEmpty(o["ref"])) = ref)
                 ELSE Miss
    IN IF byPid.ok THEN Hit(byPid.obj)
       ELSE IF bySid.ok THEN Hit(bySid.obj)
       ELSE IF byRef.kind # "none" THEN byRef
       ELSE IF lbl # ""
       THEN FirstMatch(hp, hs, LAMBDA o : Casefold(Strip(OrEmpty(Or(o["label"], o["name"])))) = lbl)
       ELSE Miss

_find_catalog_match(line, products, services) ==
    MatchIn(line, products, services, _hydrate_list(products), _hydrate_list(services))

\* _enrich_line_dict, given the catalog match m and the price of the line
EnrichPriced(line, m, price) ==
    LET has == m.kind = "hit"
        src == m.src
        label == Or(Get(line, "label"),
                    IF has THEN Or(src["label"], src["name"]) ELSE PyNone)
        unit == IF Get(line, "unit") # PyNone THEN line["unit"]
                ELSE IF has THEN OrEmpty(src["unit"]) ELSE ""
        desc == Or(Get(line, "description"),
                   Or(IF has THEN src["description"] ELSE PyNone, OrEmpty(label)))
        fill == ~Truthy(Get(line, "ref")) /\ has
        type == IF Truthy(Get(line, "item_type")) THEN line["item_type"]
                ELSE IF Truthy(Get(line, "product_id")) THEN "product"
                ELSE IF Truthy(Get(line, "service_id")) THEN "service"
                ELSE "item"
        keys == (DOMAIN line \cup {"label", "unit", "description", "price_cents", "price_cent",
                                   "item_type"})
                   \cup (IF fill THEN {"ref"} ELSE {})
    IN IF m.kind = "raise" \/ price.raised
       THEN [raised |-> TRUE, e |-> <<>>]
       ELSE [raised |-> FALSE,
             e |-> [k \in keys |->
                      CASE k = "label" -> OrEmpty(label)
                        [] k = "unit" -> OrEmpty(unit)
                        [] k = "description" -> OrEmpty(desc)
                        [] k \in {"price_cents", "price_cent"} -> NInt(price.cents)
                        [] k = "item_type" -> type
                        [] k = "ref" /\ fill -> Or(src["ref"], OrEmpty(src["id"]))
                        [] OTHER -> line[k]]]

\* the price of the line, else the price of the catalog item
EnrichFrom(line, m, own) ==
    EnrichPriced(line, m,
                 IF ~own.raised /\ own.cents = 0 /\ m.kind = "hit"
                 THEN _price_to_cents(m.src) ELSE own)

\* _enrich_line_dict(line): raised, or the enriched dict
_enrich_line_dict(line, products, services) ==
    EnrichFrom(line, _find_catalog_match(line, products, services), _price_to_cents(line))

QuoteLineFields ==
    {"item_id", "item_type", "label", "description", "qty", "unit_price_ttc_cent",
     "remise_pct", "total_line_ttc_cent"}

\* the value of an int field of the model: the validated value, 0 by default
IntField(e, k) == IF k \in DOMAIN e THEN PydInt(e[k]) ELSE Parsed(0)

\* QuoteLine as validation left it, given the three validated numbers
QuoteLineOf(e, price, remise, total) ==
    IF /\ e["item_type"] \in {"product", "service"}
       /\ price.ok /\ remise.ok /\ total.ok
    THEN [raised |-> FALSE,
          ln |-> [k \in QuoteLineFields |->
                    CASE k = "item_id" -> Get(e, "item_id")
                      [] k = "unit_price_ttc_cent" -> NInt(price.n)
                      [] k = "remise_pct" -> NMilli(remise.n)
                      [] k = "total_line_ttc_cent" -> NInt(total.n)
                      [] OTHER -> e[k]]]
    ELSE [raised |-> TRUE, ln |-> <<>>]

\* QuoteLine.model_validate(e): keys that are no field of the model are
\* ignored, a field's value is validated, an absent field gets its default
QuoteLineValidate(e) ==
    QuoteLineOf(e, IntField(e, "unit_price_ttc_cent"),
                IF "remise_pct" \in DOMAIN e THEN PydFloat(e["remise_pct"]) ELSE Parsed(0),
                IntField(e, "total_line_ttc_cent"))

\* _hydrate_line, given the enriched dict e, the quantity and the unit price
HydrateLineOf(e, qty, pc) ==
    QuoteLineValidate(
        [k \in DOMAIN e \cup {"qty", "total_ttc_cent", "total_ht_cent"} |->
           CASE k = "qty" -> NMilli(qty)
             [] k \in {"total_ttc_cent", "total_ht_cent"} -> NInt(RoundDiv(pc * qty, 1000))
             [] k \in {"price_cents", "price_cent"} -> NInt(pc)
             [] OTHER -> e[k]])

\* _hydrate_line, given what _enrich_line_dict returned
HydrateLineFrom(d, en) ==
    IF en.raised THEN [raised |-> TRUE, ln |-> <<>>]
    ELSE HydrateLineOf(en.e,
                       _qty_to_float(IF "qty" \in DOMAIN en.e THEN en.e["qty"]
                                     ELSE IF "quantity" \in DOMAIN en.e THEN en.e["quantity"]
                                     ELSE NInt(1)),
                       IF en.e["price_cents"].int = 0 /\ en.e["price_cent"].int = 0
                       THEN _price_to_cents(d).cents
                       ELSE en.e["price_cents"].int)

\* _hydrate_line(d): raised, or the QuoteLine object (its fields)
_hydrate_line(d, products, services) ==
    HydrateLineFrom(d, _enrich_line_dict(d, products, services))

(***************************************************************************)
(* Claims about the record stores                                           *)
(***************************************************************************)
\* the content of the store the run exercises
Rows == IF repoKind = "json" THEN file ELSE ldata

\* C1: in every reachable state of a record store (add, update, upsert,
\* delete, the catalog's smart upsert) every persisted record has a non-empty
\* primary key and no two persisted records share a primary-key value.
C1_KeysUniqueAndPresent ==
    /\ \A i \in 1..Len(Rows) : Truthy(Get(Rows[i], KEY))
    /\ \A i, j \in 1..Len(Rows) : i # j => Str(Get(Rows[i], KEY)) # Str(Get(Rows[j], KEY))

\* a persisted record carries r's key
HasKeyOf(data, r) == Truthy(Get(r, KEY)) /\ HasKeyStr(data, Get(r, KEY))

LegacyHasKeyOf(data, r) == Get(r, KEY) # PyNone /\ _index_of_key(data, Get(r, KEY)) # 0

\* C4: for every store content and every record r, upsert(r) returns and
\* persists what add(r) does when no persisted record has r's key, and what
\* update(r) does when one has (both store classes).
C4_UpsertIsAddOrUpdate ==
    /\ repoKind = "json" =>
          \A item \in Items, u \in FreshUuids(file) :
             Upsert(file, item, u) =
                IF HasKeyOf(file, item) THEN Update(file, item) ELSE Add(file, item, u)
    /\ repoKind = "legacy" =>
          \A item \in Items :
             LegacyUpsert(ldata, item) =
                IF LegacyHasKeyOf(ldata, item) THEN LegacyUpdate(ldata, item)
                ELSE LegacyAdd(ldata, item)

\* an upsert has just merged its argument into one of two persisted records
C4_Witness ==
    /\ repoKind = "json"
    /\ last.op = "upsert"
    /\ last.err = ""
    /\ Len(file) = 2
    /\ last.val # last.arg
    /\ \E i \in 1..2 : file[i] = last.val[1] /\ Get(file[i], KEY) = Get(last.arg[1], KEY)

(***************************************************************************)
(* QuoteService.recalc_totals                                               *)
(***************************************************************************)
\* _normalize_lines_key(qd): "items" when the document holds it, else "lines"
_normalize_lines_key(qd) ==
    IF "items" \in DOMAIN qd THEN qd["items"]
    ELSE IF "lines" \in DOMAIN qd THEN qd["lines"]
    ELSE <<>>

\* sum(int(getattr(ln, "total_ttc_cent", 0) or 0) for ln in line_objs)
RECURSIVE SumAttr(_, _)
SumAttr(lns, attr) ==
    IF lns = <<>> THEN 0
    ELSE (IF attr \in DOMAIN Head(lns) THEN Head(lns)[attr].int ELSE 0)
         + SumAttr(Tail(lns), attr)

\* the fields pydantic lets setattr assign on a Quote
QuoteFields == {"id", "number", "status", "lines", "total_ttc_cent", "payments"}

\* recalc_totals, given the hydration hyd of the raw lines
RecalcFrom(form, quote, hyd) ==
    LET line_objs == [i \in 1..Len(hyd) |-> hyd[i].ln]
        lines_key == IF "items" \in DOMAIN quote THEN "items"
                     ELSE IF "lines" \in DOMAIN quote THEN "lines"
                     ELSE "items"
        set == IF form = "dict" THEN {lines_key, "total_ht_cent", "total_ttc_cent"}
               ELSE {"lines", "total_ht_cent", "total_ttc_cent"} \cap QuoteFields
    IN IF \E i \in 1..Len(hyd) : hyd[i].raised
       THEN [raised |-> TRUE, form |-> form, q |-> quote]
       ELSE [raised |-> FALSE, form |-> form,
             q |-> [k \in DOMAIN quote \cup set |->
                      IF k \in set
                      THEN (IF k \in {"lines", "items"} THEN line_objs
                            ELSE SumAttr(line_objs, "total_ttc_cent"))
                      ELSE quote[k]]]

\* the raw lines of a document, each through _hydrate_line
HydrateLines(raw, cat) ==
    [i \in 1..Len(raw) |-> _hydrate_line(raw[i], cat.products, cat.services)]

\* recalc_totals(quote): form is "dict" for a plain mapping and "obj" for a
\* Quote object; the result is the exception or the document, which the
\* code updates in place
recalc_totals(form, quote, cat) ==
    RecalcFrom(form, quote, HydrateLines(_normalize_lines_key(quote), cat))

(***************************************************************************)
(* Reconciliation runs: a document, a catalog, recalc_totals once and twice *)
(***************************************************************************)
MaxLines == 2

Chars1850 == <<"1", "8", ",", "5", "0">>

\* the line the quote editor builds (a QuoteLine dump)
UiLine(item_id, type, label, qty, price, total) ==
    [item_id |-> item_id, item_type |-> type, label |-> label, description |-> PyNone,
     qty |-> NMilli(qty), unit_price_ttc_cent |-> NInt(price), remise_pct |-> NMilli(0),
     total_line_ttc_cent |-> NInt(total)]

\* lines a Quote object can hold
ObjLines ==
    { UiLine("p1", "product", "Sono", 2000, 1500, 0),
      UiLine("p1", "product", "Sono", 2000, 1500, 3000),
      UiLine(PyNone, "service", "", 1500, 0, 0) }

\* lines a stored or imported mapping can hold
LineInputs ==
    ObjLines \cup
    { [product_id |-> "p1", qty |-> NInt(2), price_cents |-> NInt(1500)],
      [label |-> "sono", price_eur |-> NText(Chars1850), quantity |-> NText(<<"1", ".", "5">>)],
      [service_id |-> "s1", item_type |-> "service", name |-> "DJ", qty |-> NNone,
       price |-> NText(<<"a", "b">>), remise_pct |-> NText(<<"1", "0">>)],
      [ref |-> "R1", item_type |-> "service", unit_price_ttc_cent |-> NText(<<"1", "2">>),
       total_line_ttc_cent |-> NInt(500), qty |-> NNaN],
      [item_type |-> "service", label |-> "x", price |-> NNaN],
      [product_id |-> "p1", item_type |-> "product", label |-> "Offert", qty |-> NInt(1),
       price_cents |-> NInt(0)] }

\* the sequences of at most n elements of S
RECURSIVE SeqsUpTo(_, _)
SeqsUpTo(S, n) ==
    IF n = 0 THEN {<<>>}
    ELSE LET shorter == SeqsUpTo(S, n - 1)
         IN shorter \cup {Append(ls, x) : ls \in {l \in shorter : Len(l) = n - 1}, x \in S}

\* quote documents: plain mappings under "lines", under "items", under
\* both or under neither, and Quote objects
Docs ==
    LET dls == SeqsUpTo(LineInputs, MaxLines)
        ols == SeqsUpTo(ObjLines, MaxLines)
    IN {[raised |-> FALSE, form |-> "dict",
         q |-> [id |-> "q1", lines |-> ls, total_ttc_cent |-> 9999]] : ls \in dls}
       \cup {[raised |-> FALSE, form |-> "dict", q |-> [id |-> "q1", items |-> ls]] : ls \in dls}
       \cup {[raised |-> FALSE, form |-> "dict",
              q |-> [id |-> "q1", items |-> ls, lines |-> <<>>, total_ht_cent |-> 1]] : ls \in dls}
       \cup {[raised |-> FALSE, form |-> "dict", q |-> [id |-> "q1"]]}
       \cup {[raised |-> FALSE, form |-> "obj",
              q |-> [id |-> "q1", number |-> PyNone, status |-> "PENDING", lines |-> ls,
                     total_ttc_cent |-> 9999, payments |-> <<>>]] : ls \in ols}

\* catalog files: empty, filled, and with a row the Service model rejects
Catalogs ==
    LET p1 == [id |-> "p1", ref |-> "R1", name |-> "Sono", unit |-> "", price_cents |-> NInt(1200)]
        p2 == [id |-> "p2", name |-> "x", label |-> "", price |-> NText(Chars1850)]
        s1 == [id |-> "s1", ref |-> "R2", name |-> "DJ", description |-> "Animation",
               price_cents |-> NInt(0), price_eur |-> NMilli(250500)]
        bad == [id |-> "s2", name |-> PyNone]
    IN { [products |-> <<>>, services |-> <<>>],
         [products |-> <<p1, p2>>, services |-> <<s1>>],
         [products |-> <<p1>>, services |-> <<s1, bad>>] }

RecalcInit ==
    /\ catalog \in Catalogs
    /\ doc \in Docs
    /\ res1 = NoResult
    /\ res2 = NoResult
    /\ rpc = "start"
    /\ repoKind = "json"
    /\ file = <<>>
    /\ ldata = <<>>
    /\ last = NoOp
    /\ FlowIdle
    /\ DiskIdle
    /\ MoneyIdle
    /\ ThreadIdle
    /\ InstIdle

\* recalc_totals(doc)
RecalcOnce ==
    /\ rpc = "start"
    /\ res1' = recalc_totals(doc.form, doc.q, catalog)
    /\ rpc' = "once"
    /\ UNCHANGED <<diskVars, moneyVars, threadVars, instVars, catalog, doc, res2, repoVars, flowVars>>

\* recalc_totals applied to the document the first call returned
RecalcTwice ==
    /\ rpc = "once"
    /\ ~res1.raised
    /\ res2' = recalc_totals(res1.form, res1.q, catalog)
    /\ rpc' = "twice"
    /\ UNCHANGED <<diskVars, moneyVars, threadVars, instVars, catalog, doc, res1, repoVars, flowVars>>

RecalcNext == RecalcOnce \/ RecalcTwice

SpecRecalc == RecalcInit /\ [][RecalcNext]_vars

(***************************************************************************)
(* The money normalizers applied to one mapping                             *)
(***************************************************************************)
MaxKeys == 2

\* the price keys a product, a service or a quote line carries
MoneyKeys == {"price_cents", "price_cent", "unit_price_ttc_cent", "price_eur", "price"}

\* 1850, -5, 18.5, 0.999, "18,50", "abc", "", None and NaN
MoneyValues ==
    {NInt(1850), NInt(-5), NMilli(18500), NMilli(999), NText(Chars1850),
     NText(<<"a", "b", "c">>), NText(<<>>), NNone, NNaN}

\* the mappings of at most MaxKeys price keys
PriceMaps ==
    UNION {[ks -> MoneyValues] : ks \in {S \in SUBSET MoneyKeys : Cardinality(S) <= MaxKeys}}

MoneyInit ==
    /\ priceMap \in PriceMaps
    /\ cents = NoCents
    /\ repoKind = "json"
    /\ file = <<>>
    /\ ldata = <<>>
    /\ last = NoOp
    /\ RecalcIdle
    /\ FlowIdle
    /\ DiskIdle
    /\ ThreadIdle
    /\ InstIdle

\* quote_service._price_to_cents(priceMap)
NormalizeQuote ==
    /\ cents.quote = NotRun
    /\ cents' = [cents EXCEPT !.quote = _price_to_cents(priceMap)]
    /\ UNCHANGED <<priceMap, threadVars, instVars, repoVars, recalcVars, flowVars, diskVars>>

\* CatalogService._parse_price_to_cents(priceMap), which raises nothing
NormalizeCatalog ==
    /\ cents.catalog = NotRun
    /\ cents' = [cents EXCEPT !.catalog =
                     [raised |-> FALSE, cents |-> _parse_price_to_cents(priceMap)]]
    /\ UNCHANGED <<priceMap, threadVars, instVars, repoVars, recalcVars, flowVars, diskVars>>

MoneyNext == NormalizeQuote \/ NormalizeCatalog

SpecMoney == MoneyInit /\ [][MoneyNext]_vars

(***************************************************************************)
(* Claims about quote reconciliation                                        *)
(***************************************************************************)
\* C2: recalc_totals is idempotent: for every quote document, plain mapping
\* or Quote object, applying it twice in succession gives a document equal
\* field for field to applying it once.
C2_RecalcIdempotent == rpc = "twice" => res2 = res1

\* the line totals stored on the lines of a document
StoredLineTotals(q) == SumAttr(_normalize_lines_key(q), "total_line_ttc_cent")

\* C3: after recalc_totals the quote's grand total in cents equals the sum
\* of the line totals stored on its lines.
C3_TotalIsSumOfLineTotals ==
    (rpc \in {"once", "twice"} /\ ~res1.raised) =>
        res1.q["total_ttc_cent"] = StoredLineTotals(res1.q)

(***************************************************************************)
(* Document numbers: QuoteService._next_quote_number and                    *)
(* InvoiceService._next_invoice_number                                      *)
(***************************************************************************)
\* a document number, as the prefix and the characters that follow it
Number(prefix, tail) == [prefix |-> prefix, tail |-> tail]

\* f"DV-{year}-" in the year of the run
QuotePrefix == "DV-2026-"

\* the decimal digits of n
RECURSIVE DigitsOf(_)
DigitsOf(n) ==
    IF n < 10 THEN <<DigitChars[n + 1]>>
    ELSE Append(DigitsOf(n \div 10), DigitChars[(n % 10) + 1])

\* d right-aligned in width characters, filled with "0"
ZeroPad(d, width) ==
    IF Len(d) >= width THEN d
    ELSE [i \in 1..width |-> IF i <= width - Len(d) THEN "0" ELSE d[i - (width - Len(d))]]

\* f"{n:04d}"
Pad4(n) == ZeroPad(DigitsOf(n), 4)

\* d.get("number") is a number
HasNumber(d) == "number" \in DOMAIN d /\ d["number"] # NNone

\* int(tail), 0 when it raises
SuffixOr0(t) == IF t.ok THEN t.n ELSE 0

\* the numeric suffix of d's number when it starts with prefix, else 0
SuffixOf(d, prefix) ==
    IF HasNumber(d) /\ d["number"].prefix = prefix
    THEN SuffixOr0(IntOfChars(d["number"].tail))
    ELSE 0

\* the greatest numeric suffix of the numbers of rows that start with prefix
RECURSIVE MaxSuffix(_, _)
MaxSuffix(rows, prefix) ==
    IF rows = <<>> THEN 0
    ELSE Max(MaxSuffix(Tail(rows), prefix), SuffixOf(Head(rows), prefix))

_next_quote_number(rows) == Number(QuotePrefix, Pad4(MaxSuffix(rows, QuotePrefix) + 1))

\* f"{base_prefix}{t_map[inv_type]}-"
InvoicePrefix(inv_type) ==
    CASE inv_type = "ACOMPTE" -> "FAC-A-"
      [] inv_type = "SOLDE" -> "FAC-S-"
      [] inv_type = "FINALE" -> "FAC-F-"
      [] OTHER -> "FAC-X-"

\* f"invoice_seq_{t_map[inv_type]}"
SeqKey(inv_type) ==
    CASE inv_type = "ACOMPTE" -> "invoice_seq_A"
      [] inv_type = "SOLDE" -> "invoice_seq_S"
      [] inv_type = "FINALE" -> "invoice_seq_F"
      [] OTHER -> "invoice_seq_X"

\* the number made of the counter seq, and the numbering section written back
NumberFrom(inv_type, numbering, seq) ==
    [number |-> Number(InvoicePrefix(inv_type), Pad4(seq)),
     numbering |-> SetKey(numbering, SeqKey(inv_type), seq + 1)]

\* _next_invoice_number(inv_type), numbering being settings.json's section
_next_invoice_number(inv_type, numbering) ==
    NumberFrom(inv_type, numbering,
               IF SeqKey(inv_type) \in DOMAIN numbering THEN numbering[SeqKey(inv_type)] ELSE 1)

(***************************************************************************)
(* core/models/quote.py: payments and the remaining balance                 *)
(***************************************************************************)
\* sum(p.amount_cent for p in payments if p.kind == kind)
RECURSIVE PaidOfKind(_, _)
PaidOfKind(payments, kind) ==
    IF payments = <<>> THEN 0
    ELSE (IF Head(payments).kind = kind THEN Head(payments).amount_cent ELSE 0)
         + PaidOfKind(Tail(payments), kind)

paid_total_cent(quote) ==
    PaidOfKind(quote.payments, "ACOMPTE") + PaidOfKind(quote.payments, "SOLDE")

remaining_cent(quote) == Max(0, quote.total_ttc_cent - paid_total_cent(quote))

(***************************************************************************)
(* The services, step by step. A call works on w: the Quote object q, the   *)
(* content of quotes.json and settings.json, the lists InvoiceService and   *)
(* AccountingService hold, the bytes of invoices.json (invRaw), the invoice *)
(* made last, and the exception raised.                                     *)
(***************************************************************************)
MaxQuotes == 2
MaxInvoices == 3
MaxPays == 2
MaxCalls == 5

Failed(w) == w.err # ""

FreshUuid(data) == CHOOSE u \in FreshUuids(data) : TRUE

\* the document with the number the payload is persisted under
WithNumber(quote, rows) ==
    IF HasNumber(quote) THEN quote ELSE SetKey(quote, "number", _next_quote_number(rows))

\* a payment as json.dumps(..., default=_json_default) writes it: the dump of
\* a PaymentRecord is a mapping; an object that model_dump left as it found it
\* (the SimpleNamespace of _hydrate_payment_obj) goes through str()
JsonPayment(p) == IF "id" \in DOMAIN p THEN p ELSE [repr |-> p]

\* the payload of a quote as the store file holds it
JsonQuote(q) ==
    IF "payments" \in DOMAIN q
    THEN [k \in DOMAIN q |->
            IF k = "payments"
            THEN [i \in 1..Len(q["payments"]) |-> JsonPayment(q["payments"][i])]
            ELSE q[k]]
    ELSE q

\* update_quote after recalc_totals returned r
PersistUpdate(w, r) ==
    IF r.raised THEN [w EXCEPT !.err = "ValidationError"]
    ELSE [w EXCEPT !.q = IF r.form = "obj" THEN r.q ELSE @,
                   !.quotes = Upsert(@, JsonQuote(WithNumber(r.q, w.quotes)),
                                     FreshUuid(w.quotes)).data]

\* QuoteService.update_quote(quote)
update_quote(w, form, quote) ==
    IF Failed(w) THEN w ELSE PersistUpdate(w, recalc_totals(form, quote, catalog))

\* add_quote after recalc_totals returned r and the store answered a
PersistAdd(w, r, a) ==
    IF r.raised THEN [w EXCEPT !.err = "ValidationError"]
    ELSE [w EXCEPT !.q = r.q,
                   !.quotes = a.data,
                   !.err = a.err]

AddRecalculated(w, r) ==
    PersistAdd(w, r, IF r.raised THEN Outcome(w.quotes, <<>>, FALSE, "")
                     ELSE Add(w.quotes, JsonQuote(WithNumber(r.q, w.quotes)),
                              FreshUuid(w.quotes)))

\* QuoteService.add_quote(q)
add_quote(w) == AddRecalculated(w, recalc_totals("obj", w.q, catalog))

\* q.payments.append(PaymentRecord(kind=kind, amount_cent=amount_cent)); q.status = status
\* the id (gen_id) is one no payment of the quote carries
AppendPayment(w, kind, amount_cent, status) ==
    [w EXCEPT !.q.payments = Append(@, [id |-> Len(@) + 1, kind |-> kind,
                                        amount_cent |-> amount_cent, invoice_id |-> 0]),
              !.q.status = status]

\* invoices.json as _save leaves it: cut short when json.dump raises
SavedAs(data) == IF Unserializable(data) THEN Partial ELSE ""

\* what _save raises on the list
SaveError(data) == IF Unserializable(data) THEN "TypeError" ELSE ""

\* repo.add(inv.model_dump()), data being self.data after the append: _save
\* writes it, and raises on the datetime of created_at
AppendInvoice(w, inv, data) ==
    [w EXCEPT !.invoices = data,
              !.invRaw = SavedAs(data),
              !.inv = inv.id,
              !.err = SaveError(data)]

\* add_invoice(inv), nx being the number _next_invoice_number allocated
StoreInvoice(w, inv, nx) ==
    AppendInvoice([w EXCEPT !.settings = nx.numbering], inv,
                  LegacyAdd(w.invoices, [inv EXCEPT !.number = nx.number,
                                                    !.total_ttc_cent = inv.line_total]).data)

\* InvoiceService.add_invoice(inv), inv carrying no number
add_invoice(w, inv) == StoreInvoice(w, inv, _next_invoice_number(inv.type, w.settings))

\* gen_deposit / gen_balance / gen_final: a one-line invoice of the type; its
\* id (gen_id) is one no persisted invoice carries
gen_invoice(w, inv_type, amount) ==
    IF Failed(w) THEN w
    ELSE add_invoice(w, [id |-> Len(w.invoices) + 1, number |-> NNone, type |-> inv_type,
                         quote_id |-> w.q.id, line_total |-> amount,
                         total_ttc_cent |-> amount, created_at |-> Now])

\* export_invoice_pdf(inv): raises when the PDF cannot be produced
export_invoice_pdf(w, pdfOk) ==
    IF Failed(w) \/ pdfOk THEN w ELSE [w EXCEPT !.err = "RuntimeError"]

\* AccountingService.add_entry(AccountingEntry(...))
add_entry(w, type, amount_cent) ==
    IF Failed(w) THEN w
    ELSE [w EXCEPT !.entries = LegacyAdd(@, [type |-> type, amount_cent |-> amount_cent,
                                             invoice_id |-> w.inv, date |-> Now]).data,
                   !.err = SaveError(LegacyAdd(w.entries, [date |-> Now]).data)]

\* pay.invoice_id = inv.id, pay being the payment appended last
LinkPayment(w) ==
    IF Failed(w) THEN w
    ELSE [w EXCEPT !.q.payments[Len(w.q.payments)].invoice_id = w.inv]

\* if q.remaining_cent() == 0: is the branch taken where the call stands
Finalizes(w) == ~Failed(w) /\ remaining_cent(w.q) = 0

\* q.status = "FINALIZED"
MarkFinalized(w) == IF Finalizes(w) THEN [w EXCEPT !.q.status = "FINALIZED"] ELSE w

\* the persisted quote with the id, <<>> when there is none
StoredQuote(rows, id) ==
    LET i == FirstIdx(rows, LAMBDA d : Get(d, "id") = id)
    IN IF i = 0 THEN <<>> ELSE <<rows[i]>>

StoredNumber(rows, id) ==
    IF StoredQuote(rows, id) = <<>> THEN NNone
    ELSE IF HasNumber(StoredQuote(rows, id)[1]) THEN StoredQuote(rows, id)[1]["number"]
    ELSE NNone

\* _to_dict(p) of a stored payment: a mapping as it is, {} for a string
PaymentDict(p) == IF "repr" \in DOMAIN p THEN <<>> ELSE p

\* _hydrate_payment_obj(d): a SimpleNamespace with kind, amount_cent and
\* invoice_id (and at, method), and without the id of the payment
_hydrate_payment_obj(d) ==
    [kind |-> IF "kind" \in DOMAIN d THEN d["kind"] ELSE "PAYMENT",
     amount_cent |-> IF "amount_cent" \in DOMAIN d THEN d["amount_cent"] ELSE 0,
     invoice_id |-> IF "invoice_id" \in DOMAIN d THEN d["invoice_id"] ELSE 0]

\* the stored payments of the row, each through _hydrate_payment_obj
HydratePayments(d) ==
    IF "payments" \in DOMAIN d
    THEN [i \in 1..Len(d["payments"]) |-> _hydrate_payment_obj(PaymentDict(d["payments"][i]))]
    ELSE <<>>

\* _hydrate_quote, given the hydration hyd of the lines and pays of the
\* payments: Quote.model_validate rejects a payment whose kind is neither
\* ACOMPTE nor SOLDE; q.payments is then set to the SimpleNamespace objects
HydrateQuoteFrom(d, hyd, pays) ==
    IF \/ \E i \in 1..Len(hyd) : hyd[i].raised
       \/ \E i \in 1..Len(pays) : pays[i].kind \notin {"ACOMPTE", "SOLDE"}
    THEN [raised |-> TRUE, q |-> NoQuote]
    ELSE [raised |-> FALSE,
          q |-> [id |-> d["id"],
                 number |-> IF "number" \in DOMAIN d THEN d["number"] ELSE NNone,
                 status |-> IF "status" \in DOMAIN d THEN d["status"] ELSE "PENDING",
                 lines |-> [i \in 1..Len(hyd) |-> hyd[i].ln],
                 total_ttc_cent |-> SumAttr([i \in 1..Len(hyd) |-> hyd[i].ln], "total_ttc_cent"),
                 payments |-> pays]]

\* QuoteService._hydrate_quote(d)
_hydrate_quote(d, cat) ==
    HydrateQuoteFrom(d, HydrateLines(_normalize_lines_key(d), cat), HydratePayments(d))

(***************************************************************************)
(* Workflow runs: quotes are built, persisted, updated, deleted, refused    *)
(* and paid; settings.json may be lost in between                           *)
(***************************************************************************)
Amounts == {1000}

QIds == <<"q1", "q2", "q3", "q4">>

\* how many Quote objects the callers have built: the ids are handed out in order
Built(held) ==
    IF held = NoQuote THEN 0 ELSE CHOOSE n \in 1..Len(QIds) : QIds[n] = held.id

\* str(uuid.uuid4()) of a new Quote: an id no Quote has carried
FreshQuoteId(held) == QIds[Built(held) + 1]

PersistedIds(rows) == {Get(rows[i], "id") : i \in 1..Len(rows)}

\* the numbers a caller gives a Quote it builds: none, or one of its own
SuppliedNumbers == {NNone, Number(QuotePrefix, Pad4(1))}

\* the lines a caller gives a Quote it builds
QuoteLineChoices == {<<UiLine("p1", "product", "Sono", 2000, 1000, 0)>>}

\* the total of the lines: unit price times quantity, line by line
RECURSIVE LineDerivedTotal(_)
LineDerivedTotal(lines) ==
    IF lines = <<>> THEN 0
    ELSE RoundDiv(Head(lines).unit_price_ttc_cent.int * Head(lines).qty.milli, 1000)
         + LineDerivedTotal(Tail(lines))

\* Quote(id=id, number=number, lines=lines, total_ttc_cent=...)
NewQuote(id, number, lines) ==
    [id |-> id, number |-> number, status |-> "PENDING", lines |-> lines,
     total_ttc_cent |-> LineDerivedTotal(lines), payments |-> <<>>]

\* the catalog of a workflow run
FlowCatalog == CHOOSE c \in Catalogs : Len(c.products) = 2

World ==
    [q |-> qobj, quotes |-> file, invoices |-> ldata, entries |-> entries,
     settings |-> settings, err |-> "", inv |-> 0, invRaw |-> rawFile]

\* the state a call leaves, w being where it returned or raised
Commit(w, op, qid, a) ==
    /\ Len(w.quotes) <= MaxQuotes
    /\ Len(w.invoices) <= MaxInvoices
    /\ Len(w.q.payments) <= MaxPays
    /\ calls < MaxCalls
    /\ calls' = calls + 1
    /\ qobj' = w.q
    /\ file' = w.quotes
    /\ ldata' = w.invoices
    /\ entries' = w.entries
    /\ settings' = w.settings
    /\ rawFile' = w.invRaw
    /\ fl' = [op |-> op, ok |-> ~Failed(w), qid |-> qid, a |-> a]
    /\ UNCHANGED <<baks, corrupt, clock, cfg, moneyVars, threadVars, instVars, repoKind, last, recalcVars>>

FlowInit ==
    /\ repoKind = "json"
    /\ file = <<>>
    /\ ldata = <<>>
    /\ last = NoOp
    /\ catalog = FlowCatalog
    /\ doc = NoResult
    /\ res1 = NoResult
    /\ res2 = NoResult
    /\ rpc = "idle"
    /\ FlowIdle
    /\ DiskIdle
    /\ MoneyIdle
    /\ ThreadIdle
    /\ InstIdle

\* the caller builds a Quote object
Construct ==
    /\ Built(qobj) < MaxQuotes
    /\ \E number \in SuppliedNumbers, lines \in QuoteLineChoices :
        Commit([World EXCEPT !.q = NewQuote(FreshQuoteId(qobj), number, lines)],
               "construct", FreshQuoteId(qobj), 0)

\* QuoteService.add_quote(q)
AddQuote ==
    /\ qobj # NoQuote
    /\ \E w \in {add_quote(World)} : Commit(w, "add_quote", qobj.id, 0)

\* QuoteService.update_quote(q)
UpdateQuote ==
    /\ qobj # NoQuote
    /\ \E w \in {update_quote(World, "obj", qobj)} : Commit(w, "update_quote", qobj.id, 0)

\* QuoteService.update_quote({"id": id})
UpdateQuoteMapping ==
    \E id \in PersistedIds(file) :
        \E w \in {update_quote(World, "dict", [id |-> id])} : Commit(w, "update_quote", id, 0)

\* QuoteService.delete_quote(id)
DeleteQuote ==
    \E id \in PersistedIds(file) :
        Commit([World EXCEPT !.quotes = Delete(@, id).data], "delete_quote", id, 0)

\* WorkflowService.refuse_quote(q)
RefuseQuote ==
    /\ qobj # NoQuote
    /\ \E w1 \in {[World EXCEPT !.q.status = "REFUSED"]} :
       \E w2 \in {update_quote(w1, "obj", w1.q)} :
           Commit(w2, "refuse_quote", qobj.id, 0)

\* WorkflowService.record_deposit(q, amount_cent, method)
RecordDeposit ==
    /\ qobj # NoQuote
    /\ \E amount_cent \in Amounts, pdfOk \in BOOLEAN :
       \E w1 \in {AppendPayment(World, "ACOMPTE", amount_cent, "VALIDATED")} :
       \E w2 \in {update_quote(w1, "obj", w1.q)} :
       \E w3 \in {gen_invoice(w2, "ACOMPTE", amount_cent)} :
       \E w4 \in {export_invoice_pdf(w3, pdfOk)} :
       \E w5 \in {add_entry(w4, "ACOMPTE", amount_cent)} :
       \E w6 \in {LinkPayment(w5)} :
       \E w7 \in {update_quote(w6, "obj", w6.q)} :
           Commit(w7, "record_deposit", qobj.id, amount_cent)

\* WorkflowService.record_balance(q, amount_cent, method)
RecordBalance ==
    /\ qobj # NoQuote
    /\ \E amount_cent \in Amounts, pdfOk \in BOOLEAN :
       \E w1 \in {AppendPayment(World, "SOLDE", amount_cent, qobj.status)} :
       \E w2 \in {update_quote(w1, "obj", w1.q)} :
       \E w3 \in {gen_invoice(w2, "SOLDE", amount_cent)} :
       \E w4 \in {export_invoice_pdf(w3, pdfOk)} :
       \E w5 \in {add_entry(w4, "SOLDE", amount_cent)} :
       \E w6 \in {LinkPayment(w5)} :
       \E w7 \in {update_quote(w6, "obj", w6.q)} :
       \E w8 \in {MarkFinalized(w7)} :
       \E w9 \in {IF Finalizes(w7) THEN update_quote(w8, "obj", w8.q) ELSE w8} :
       \E w10 \in {IF Finalizes(w7) THEN gen_invoice(w9, "FINALE", 0) ELSE w9} :
       \E w11 \in {IF Finalizes(w7) THEN export_invoice_pdf(w10, pdfOk) ELSE w10} :
           Commit(w11, "record_balance", qobj.id, amount_cent)

\* QuoteService.get_by_id(id): the caller holds the hydrated Quote from then
\* on; it keeps the one it held when the hydration raises
GetById ==
    \E id \in PersistedIds(file) :
    \E h \in {_hydrate_quote(StoredQuote(file, id)[1], catalog)} :
        Commit(IF h.raised THEN [World EXCEPT !.err = "ValidationError"]
               ELSE [World EXCEPT !.q = h.q],
               "get_by_id", id, 0)

\* settings.json is deleted, unreadable or reset: _load_json gives no numbering
SettingsReset ==
    /\ settings # <<>>
    /\ calls < MaxCalls
    /\ calls' = calls + 1
    /\ settings' = <<>>
    /\ fl' = [NoFlow EXCEPT !.op = "settings_reset"]
    /\ UNCHANGED <<diskVars, moneyVars, threadVars, instVars, repoVars, recalcVars, entries, qobj>>

\* the application is started anew: InvoiceService builds its store, whose
\* _load reads invoices.json and gives [] when json.load raises
Restart ==
    /\ calls < MaxCalls
    /\ calls' = calls + 1
    /\ ldata' = IF rawFile = "" THEN ldata ELSE <<>>
    /\ fl' = [NoFlow EXCEPT !.op = "restart"]
    /\ UNCHANGED <<diskVars, moneyVars, threadVars, instVars, repoKind, file, last, recalcVars, entries,
                   settings, qobj>>

FlowNext ==
    \/ Construct
    \/ AddQuote
    \/ UpdateQuote
    \/ UpdateQuoteMapping
    \/ DeleteQuote
    \/ RefuseQuote
    \/ RecordDeposit
    \/ RecordBalance
    \/ GetById
    \/ SettingsReset
    \/ Restart

SpecFlow == FlowInit /\ [][FlowNext]_vars

(***************************************************************************)
(* Claims on the quote workflow and on document numbers                     *)
(***************************************************************************)
WorkflowOps == {"refuse_quote", "record_deposit", "record_balance"}

AllowedChanges ==
    {<<"PENDING", "VALIDATED">>, <<"PENDING", "REFUSED">>, <<"VALIDATED", "FINALIZED">>}

\* C5: over refuse_quote, record_deposit and record_balance, every change of
\* the quote's status is PENDING->VALIDATED, PENDING->REFUSED or
\* VALIDATED->FINALIZED, so that REFUSED and FINALIZED are never left.
C5_StatusMachine ==
    [][(fl'.op \in WorkflowOps /\ qobj'.status # qobj.status)
           => <<qobj.status, qobj'.status>> \in AllowedChanges]_vars

\* the invoices that invoices.json holds, mem being the list of InvoiceService
\* and bytes what _save left in the file
InvoicesOnDisk(mem, bytes) == IF bytes = "" THEN mem ELSE <<>>

\* a persisted invoice with the id, type and total, that references the quote
InvoiceFor(rows, id, type, total, quote_id) ==
    \E i \in 1..Len(rows) :
        /\ rows[i].id = id
        /\ rows[i].type = type
        /\ rows[i].total_ttc_cent = total
        /\ rows[i].quote_id = quote_id

\* after is before with one more payment, of the kind and the amount
GainedPayment(before, after, kind, a) ==
    /\ Len(after) = Len(before) + 1
    /\ \A i \in 1..Len(before) : after[i].kind = before[i].kind
                                 /\ after[i].amount_cent = before[i].amount_cent
    /\ after[Len(after)].kind = kind
    /\ after[Len(after)].amount_cent = a

\* C6: record_deposit(q, a, method) on a PENDING quote of total T with
\* 0 < a <= T completes and leaves the status VALIDATED, one more payment, an
\* ACOMPTE of a, a persisted ACOMPTE invoice of total a that references the
\* quote and is linked from that payment, and a remaining balance of T - a.
C6_Deposit ==
    [][(/\ fl'.op = "record_deposit"
        /\ qobj.status = "PENDING"
        /\ 0 < fl'.a
        /\ fl'.a <= qobj.total_ttc_cent)
           => /\ fl'.ok
              /\ qobj'.status = "VALIDATED"
              /\ GainedPayment(qobj.payments, qobj'.payments, "ACOMPTE", fl'.a)
              /\ InvoiceFor(InvoicesOnDisk(ldata', rawFile'),
                            qobj'.payments[Len(qobj'.payments)].invoice_id,
                            "ACOMPTE", fl'.a, qobj.id)
              /\ remaining_cent(qobj') = qobj.total_ttc_cent - fl'.a]_vars

\* the call persisted a FINALE invoice of total 0 for the quote
NewFinale(before, after, quote_id) ==
    \E i \in (Len(before) + 1)..Len(after) :
        /\ after[i].type = "FINALE"
        /\ after[i].total_ttc_cent = 0
        /\ after[i].quote_id = quote_id

\* C7: record_balance sets the status to FINALIZED and makes a FINALE invoice
\* of total 0 exactly when the total minus all recorded payments, the balance
\* payment included, is 0; and a quote is never FINALIZED by it while its
\* payments sum to less than the total of its lines.
C7_Balance ==
    [][fl'.op = "record_balance"
           => /\ (qobj'.status = "FINALIZED" /\ NewFinale(ldata, ldata', qobj.id))
                     <=> (Max(0, qobj.total_ttc_cent - paid_total_cent(qobj')) = 0)
              /\ (Max(0, qobj.total_ttc_cent - paid_total_cent(qobj')) > 0)
                     => (qobj'.status # "FINALIZED" /\ ~NewFinale(ldata, ldata', qobj.id))
              /\ qobj'.status = "FINALIZED"
                     => paid_total_cent(qobj') >= LineDerivedTotal(qobj'.lines)]_vars

\* C8: the numbers allocated one after the other for a prefix have suffixes
\* that go up by one, the first being the greatest existing suffix of the
\* prefix plus 1 (1 when there is none), each zero-padded to 4 digits: every
\* invoice a call persists, and the quote add_quote persists for an object
\* without number, carries the greatest suffix persisted before it plus 1.
C8_Gapless ==
    [][/\ \A i \in (Len(ldata) + 1)..Len(ldata') :
              ldata'[i].number =
                  Number(ldata'[i].number.prefix,
                         Pad4(MaxSuffix(SubSeq(ldata', 1, i - 1), ldata'[i].number.prefix) + 1))
       /\ (fl'.op = "add_quote" /\ fl'.ok /\ qobj.number = NNone)
              => StoredNumber(file', qobj.id)
                     = Number(QuotePrefix, Pad4(MaxSuffix(file, QuotePrefix) + 1))]_vars

\* no two rows carry the same number
NumbersDistinct(rows) ==
    \A i, j \in 1..Len(rows) :
        (i # j /\ HasNumber(rows[i]) /\ HasNumber(rows[j]))
            => rows[i]["number"] # rows[j]["number"]

\* C9: no two persisted quotes carry the same number after any add_quote,
\* update_quote and delete_quote, and no two persisted invoices of a type
\* carry the same number, settings.json being lost or reset or not.
C9_NumbersUnique ==
    NumbersDistinct(file) /\ NumbersDistinct(InvoicesOnDisk(ldata, rawFile))

\* C10: once a quote is persisted with a number, an update_quote of its id,
\* with whatever object or mapping, leaves the persisted number as it was.
C10_NumberStable ==
    [][(fl'.op = "update_quote" /\ StoredNumber(file, fl'.qid) # NNone)
           => StoredNumber(file', fl'.qid) = StoredNumber(file, fl'.qid)]_vars

(***************************************************************************)
(* Claims on the store file, its backups and its corrupt copy               *)
(***************************************************************************)
Mutators == {"add", "update", "upsert", "delete"}

\* the step is a call of the store that changes what the store file holds
ContentWrite == last'.op \in Mutators /\ <<file', rawFile'>> # <<file, rawFile>>

\* what the backup files hold, oldest first
Contents(files) == [i \in 1..Len(files) |-> files[i].content]

\* the k last elements of l
LastK(l, k) == SubSeq(l, Max(1, Len(l) - k + 1), Len(l))

\* C11: with backups enabled and backup_keep = K, K >= 0, the backup files
\* never number more than K, and each content-changing write of an existing
\* store file leaves the K most recent backups, the newest being the file as
\* the write found it, so that K+1 such writes leave exactly K of them.
C11_BackupsKept ==
    [][(repoKind = "json" /\ cfg.backup_enabled)
           => /\ Len(baks') <= cfg.backup_keep
              /\ (ContentWrite /\ rawFile # Missing)
                     => Contents(baks')
                            = LastK(Append(Contents(baks), Snapshot(file, rawFile)),
                                    cfg.backup_keep)]_vars

\* the store file holds something that is no JSON
FileInvalid == rawFile \notin {"", Missing}

\* the bytes lie in the store file, in its corrupt copy or in a backup
Kept(bytes, inFile, copy, files) ==
    \/ inFile = bytes
    \/ copy = bytes
    \/ \E i \in 1..Len(files) : files[i].content.raw = bytes

\* C12: for each of the two store classes, list_all on a file of invalid JSON
\* returns an empty sequence without raising and leaves a .corrupt.json
\* sibling holding exactly the invalid bytes; and an add or upsert that
\* follows does not destroy the only copy of those bytes.
C12_CorruptKept ==
    [][FileInvalid
           => /\ last'.op = "list_all"
                     => (last'.err = "" /\ last'.val = <<>> /\ corrupt' = rawFile)
              /\ last'.op \in {"add", "upsert"}
                     => Kept(rawFile, rawFile', corrupt', baks')]_vars

(***************************************************************************)
(* Claims on update, add, delete, get and list_all of the stores            *)
(***************************************************************************)
\* a persisted record of the store of the run carries r's key
KeyHeld(data, r) ==
    IF repoKind = "json" THEN HasKeyOf(data, r) ELSE LegacyHasKeyOf(data, r)

\* where the first record with r's key lies
KeyIdx(data, r) ==
    IF repoKind = "json"
    THEN FirstIdx(data, LAMBDA e : Str(Get(e, KEY)) = Str(Get(r, KEY)))
    ELSE _index_of_key(data, Get(r, KEY))

\* C13: update(r), when a persisted record has r's key, puts in its place the
\* merge in which the fields of r take r's value and the others keep theirs;
\* the record keeps its position and the other records are unchanged.
C13_UpdateMerges ==
    [][(last'.op = "update" /\ KeyHeld(Rows, last'.arg[1]))
           => /\ last'.err = ""
              /\ Rows' = SetAt(Rows, KeyIdx(Rows, last'.arg[1]),
                               Merge(Rows[KeyIdx(Rows, last'.arg[1])], last'.arg[1]))]_vars

\* the request the step makes is invalid: an add of a record whose key a
\* persisted record carries, an update of a record without key or whose key
\* no persisted record carries
InvalidRequest(op, r, data) ==
    \/ op = "add" /\ KeyHeld(data, r)
    \/ op = "update" /\ ~KeyHeld(data, r)

\* C14: an invalid request (add of a record with the key of a persisted one,
\* update of a record without key, update of a record whose key matches no
\* persisted record) raises an error and leaves the persisted collection and
\* the backup set unchanged.
C14_InvalidRejected ==
    [][(last'.op \in {"add", "update"} /\ InvalidRequest(last'.op, last'.arg[1], Rows))
           => /\ last'.err # ""
              /\ Rows' = Rows
              /\ <<file', rawFile'>> = <<file, rawFile>>
              /\ baks' = baks]_vars

\* a persisted record's key matches the key handed to delete, as the store
\* of the run compares them
KeyMatches(d, key_value) ==
    IF repoKind = "json" THEN Str(Get(d, KEY)) = Str(key_value)
    ELSE Get(d, KEY) = key_value

\* the records delete(key) has to leave, in their order
Survivors(data, key_value) == FilterSeq(data, LAMBDA d : ~KeyMatches(d, key_value))

\* C15: delete(key) removes every persisted record whose key matches and no
\* other, keeps the others in their order, returns true exactly when a record
\* was removed; with no match it raises nothing, returns false and leaves the
\* store unchanged.
C15_DeleteRemovesMatches ==
    [][last'.op = "delete"
           => /\ last'.err = ""
              /\ Rows' = Survivors(Rows, last'.arg[1])
              /\ last'.flag = (Len(Survivors(Rows, last'.arg[1])) # Len(Rows))]_vars

\* got equals r in every field, but for a key the store generated
EqualButGeneratedKey(got, r) ==
    /\ DOMAIN got = DOMAIN r \cup {KEY}
    /\ \A k \in DOMAIN r : (k = KEY /\ ~Truthy(r[KEY])) \/ got[k] = r[k]

\* the step is a get by the key of the record the add just before it returned
GetRightAfterAdd ==
    /\ last.op = "add" /\ last.err = ""
    /\ last'.op = "get_by_id"
    /\ last'.arg[1] = last.val[1][KEY]

\* C16: for every record r that add accepted, a get by the key of the record
\* add returned, made right after the add, returns a record equal to r in
\* every field except a key that the store generated.
C16_AddThenGet ==
    [][GetRightAfterAdd
           => /\ last'.err = ""
              /\ last'.val # <<>>
              /\ LET got == last'.val[1]
                     r == last.arg[1]
                 IN EqualButGeneratedKey(got, r)]_vars

\* the records the store file holds: none when there is no file
Persisted == IF rawFile = "" THEN file ELSE <<>>

\* the keys of the records, in their order
KeySeq(data) == [i \in 1..Len(data) |-> Str(Get(data[i], KEY))]

RECURSIVE IsSubseq(_, _)
\* a is b with some elements left out
IsSubseq(a, b) ==
    IF a = <<>> THEN TRUE
    ELSE IF b = <<>> THEN FALSE
    ELSE IF Head(a) = Head(b) THEN IsSubseq(Tail(a), Tail(b))
    ELSE IsSubseq(a, Tail(b))

\* the records of old that new still holds lie in new in the order they had
\* in old, and a record that new gained lies after them
FirstAddedOrder(old, new) ==
    IF Len(new) > Len(old)
    THEN KeySeq(SubSeq(new, 1, Len(old))) = KeySeq(old)
    ELSE IF Len(new) = Len(old) THEN KeySeq(new) = KeySeq(old)
    ELSE IsSubseq(KeySeq(new), KeySeq(old))

\* C17: whatever add, update, upsert and delete did before (a write they cut
\* short included), list_all returns exactly the persisted records, and raises
\* nothing and returns the empty sequence when the store file is missing; add, update,
\* upsert and delete keep the surviving records in the order of their first
\* add (an update does not move a record, an added record goes last).
C17_ListAllInOrder ==
    [][/\ (last'.op = "list_all" /\ rawFile \in {"", Missing, Partial})
           => (last'.err = "" /\ last'.val = Persisted)
       /\ (last'.op \in Mutators /\ rawFile = "" /\ rawFile' = "")
           => FirstAddedOrder(file, file')]_vars

(***************************************************************************)
(* Claims about the lines of a reconciled quote                             *)
(***************************************************************************)
\* round(unit_price_cents * quantity * (1 - discount_pct/100)) of a line,
\* quantity and discount being held in thousandths
\* (a whole percentage is taken as such, which keeps the product small)
LineTotalDue(ln) ==
    LET gross == ln["unit_price_ttc_cent"].int * ln["qty"].milli
        pct == ln["remise_pct"].milli
    IN IF pct % 1000 = 0 THEN RoundDiv(gross * (100 - pct \div 1000), 1000 * 100)
       ELSE RoundDiv(gross * (100000 - pct), 1000 * 100000)

\* C18: after recalc_totals every line of the quote has a quantity >= 0 and
\* line_total = round(unit_price_cents * quantity * (1 - discount_pct/100)):
\* the stored line total is recomputed from these fields, whatever line total
\* the input carried.
C18_LineTotalRecomputed ==
    (rpc \in {"once", "twice"} /\ ~res1.raised) =>
        \A i \in 1..Len(_normalize_lines_key(res1.q)) :
            LET ln == _normalize_lines_key(res1.q)[i]
            IN /\ ln["qty"].milli >= 0
               /\ ln["total_line_ttc_cent"].int = LineTotalDue(ln)

(***************************************************************************)
(* Claims about the money normalizers                                       *)
(***************************************************************************)
\* what the normalizers that ran returned
Normalized == {cents[n] : n \in {m \in {"quote", "catalog"} : cents[m] # NotRun}}

\* the fields of p among ks that are present and not empty
Filled(p, ks) == {k \in ks \cap DOMAIN p : NotNoneOrEmpty(p[k])}

\* the cents of the fields among ks that parse as an integer
IntCents(p, ks) == {Max(0, PyInt(p[k]).n) : k \in {f \in Filled(p, ks) : PyInt(p[f]).ok}}

\* the cents of the fields among ks that parse as a decimal of major units
MajorCents(p, ks) ==
    {Max(0, TruncDiv(CatalogEuros(p[k]).n * 100, 1000)) :
        k \in {f \in Filled(p, ks) : CatalogEuros(p[f]).ok}}

\* the sources in priority order, first success wins: the fields in cents,
\* the field in euros, the generically named price field, 0
ByPriority(p, centsNamed) ==
    IF IntCents(p, centsNamed) # {} THEN IntCents(p, centsNamed)
    ELSE IF MajorCents(p, {"price_eur"}) # {} THEN MajorCents(p, {"price_eur"})
    ELSE IF MajorCents(p, {"price"}) # {} THEN MajorCents(p, {"price"})
    ELSE {0}

\* the results the priority order allows: unit_price_ttc_cent, which neither
\* normalizer lists, read as cents or not read at all
Admissible(p) ==
    ByPriority(p, {"price_cents", "price_cent"})
        \cup ByPriority(p, {"price_cents", "price_cent", "unit_price_ttc_cent"})

\* C19: a normalizer that returns gives what the priority order gives (the
\* cents-named fields as integers, else price_eur as a decimal times 100, else
\* price the same way, else 0); so {price_eur: "18,50"} and {price_cents: 1850}
\* give 1850, {} and {price: "abc"} give 0, and a cents-named field is never
\* multiplied by 100.
C19_PriorityOrder ==
    \A r \in Normalized : ~r.raised => r.cents \in Admissible(priceMap)

\* C20: on every mapping (negative, non-numeric, empty and NaN values
\* included) a normalizer returns an integer >= 0 without raising, and 0 when
\* no field of the mapping parses as a price.
C20_Total ==
    \A r \in Normalized :
        /\ ~r.raised
        /\ r.cents >= 0
        /\ (\A k \in DOMAIN priceMap : ~PyInt(priceMap[k]).ok /\ ~CatalogEuros(priceMap[k]).ok)
               => r.cents = 0

(***************************************************************************)
(* Claims about the catalog lookup and the reconciliation of a line         *)
(***************************************************************************)
\* the raw lines of the document of the run
RawLines == _normalize_lines_key(doc.q)

\* the step at which the catalog record o answers the line: 1 its identifier,
\* 2 its ref, 3 its label or name, 4 not at all
StepOf(line, o, isProduct) ==
    LET own == Get(line, IF isProduct THEN "product_id" ELSE "service_id")
        ref == Strip(OrEmpty(Get(line, "ref")))
        lbl == Casefold(Strip(OrEmpty(Or(Get(line, "label"), Get(line, "name")))))
    IN IF Truthy(own) /\ Str(o["id"]) = Str(own) THEN 1
       ELSE IF ref # "" /\ Strip(OrEmpty(o["ref"])) = ref THEN 2
       ELSE IF lbl # "" /\ Casefold(Strip(OrEmpty(Or(o["label"], o["name"])))) = lbl THEN 3
       ELSE 4

\* the step of every record of the catalog, products first, in storage order
StepsOf(line, hp, hs) ==
    [i \in 1..(Len(hp) + Len(hs)) |->
        IF i <= Len(hp)
        THEN (IF hp[i].ok THEN StepOf(line, hp[i].obj, TRUE) ELSE 4)
        ELSE (IF hs[i - Len(hp)].ok THEN StepOf(line, hs[i - Len(hp)].obj, FALSE) ELSE 4)]

\* the first hit in the order of the steps, or no match
FirstHit(hp, hs, steps) ==
    LET all == [i \in 1..(Len(hp) + Len(hs)) |->
                  IF i <= Len(hp) THEN hp[i] ELSE hs[i - Len(hp)]]
        hits == {i \in DOMAIN steps : steps[i] < 4}
        best == CHOOSE i \in hits :
                    \A j \in hits : steps[j] > steps[i] \/ (steps[j] = steps[i] /\ j >= i)
    IN IF hits = {} THEN Miss ELSE Hit(all[best].obj)

\* C21: for every line of a document and every content of the two catalog
\* stores, the lookup does not raise and returns the first hit in the order
\* identifier, then ref, then label or name (products before services, in
\* storage order), or no match when no record answers the line.
C21_LookupOrder ==
    rpc # "start" =>
        \A i \in 1..Len(RawLines) :
            /\ _find_catalog_match(RawLines[i], catalog.products, catalog.services).kind # "raise"
            /\ _find_catalog_match(RawLines[i], catalog.products, catalog.services)
                  = FirstHit(_hydrate_list(catalog.products), _hydrate_list(catalog.services),
                             StepsOf(RawLines[i], _hydrate_list(catalog.products),
                                     _hydrate_list(catalog.services)))

\* the lines of the document the first call returned
OutLines == _normalize_lines_key(res1.q)

\* no price field of the line parses, as an integer or as a decimal
NoPrice(line) ==
    \A k \in DOMAIN line \cap {PriceLikeKeys[i] : i \in DOMAIN PriceLikeKeys} :
        ~PyInt(line[k]).ok /\ ~CatalogEuros(line[k]).ok

\* the line carries no quantity, or one that float() rejects
NoQty(line) ==
    \A k \in DOMAIN line \cap {"qty", "quantity"} :
        line[k] = NNone \/ (IsText(line[k]) /\ ~PydFloat(line[k]).ok)

\* C22: recalc_totals raises on no document (lines with no item type, no
\* catalog reference, an absent or unparseable quantity or price included):
\* it returns the document with a total, a line without a price of its own
\* or of the catalog priced 0, a line without a quantity counted once.
C22_NeverRaises ==
    rpc # "start" =>
        /\ ~res1.raised
        /\ "total_ttc_cent" \in DOMAIN res1.q
        /\ Len(OutLines) = Len(RawLines)
        /\ \A i \in 1..Len(RawLines) :
              /\ NoQty(RawLines[i]) => OutLines[i]["qty"].milli = 1000
              /\ (/\ NoPrice(RawLines[i])
                  /\ _find_catalog_match(RawLines[i], catalog.products, catalog.services).kind = "none")
                     => OutLines[i]["unit_price_ttc_cent"].int = 0

\* the line supplies a price: one of its price fields parses
SuppliesPrice(line) == ~NoPrice(line)

\* the price _enrich_line_dict is to write, given the catalog match m
PriceDue(line, m) ==
    IF SuppliesPrice(line) THEN _price_to_cents(line).cents
    ELSE IF m.kind = "hit" THEN _price_to_cents(m.src).cents
    ELSE 0

\* C28: the unit price _enrich_line_dict writes is the one of the line's own
\* price fields when the line supplies a price, and the catalog's only when
\* it supplies none: a price of 0 cents given on the line stays 0.
C28_OwnPriceFirst ==
    rpc # "start" =>
        \A i \in 1..Len(RawLines) :
            ~_enrich_line_dict(RawLines[i], catalog.products, catalog.services).raised =>
                _enrich_line_dict(RawLines[i], catalog.products, catalog.services).e["price_cents"].int
                    = PriceDue(RawLines[i],
                               _find_catalog_match(RawLines[i], catalog.products, catalog.services))

\* the mapping holds one field, price_eur or price, and its value is a
\* decimal amount of euros that is not negative
EuroOnly(p) ==
    /\ Cardinality(DOMAIN p) = 1
    /\ DOMAIN p \subseteq {"price_eur", "price"}
    /\ \A k \in DOMAIN p : CatalogEuros(p[k]).ok /\ CatalogEuros(p[k]).n >= 0

\* the amount of such a mapping, in thousandths of a euro
EuroMilli(p) == CatalogEuros(p[CHOOSE k \in DOMAIN p : TRUE]).n

\* c is a whole number of cents nearest to m thousandths of a euro
NearestCents(c, m) == 2 * (IF 10 * c >= m THEN 10 * c - m ELSE m - 10 * c) <= 10

\* C29: an amount in euros with up to three decimals becomes cents by
\* multiplying by 100 and rounding to the nearest cent (0.999 gives 100, not
\* the truncated 99), with the quote-side and the catalog-side normalizer
\* alike, so that both return the same cents.
C29_RoundsToNearest ==
    EuroOnly(priceMap) =>
        \A r \in Normalized : ~r.raised /\ NearestCents(r.cents, EuroMilli(priceMap))

(***************************************************************************)
(* Claims about the writes of the store file                                *)
(***************************************************************************)
\* C26: with backups enabled, a call of the store that changes the content of
\* an existing store file leaves, as the most recent backup, the content the
\* file had when the call began: the copy is made before the file is written.
C26_BackupBeforeWrite ==
    [][(repoKind = "json" /\ cfg.backup_enabled /\ ContentWrite /\ rawFile # Missing)
           => /\ baks' # <<>>
              /\ baks'[Len(baks')].content = Snapshot(file, rawFile)]_vars

\* a delete has just rewritten a file of two records: the newest backup holds
\* both, the file the one that is left
C26_Witness ==
    /\ repoKind = "json"
    /\ cfg.backup_enabled
    /\ last.op = "delete"
    /\ last.flag
    /\ Len(file) = 1
    /\ baks # <<>>
    /\ baks[Len(baks)].content.raw = ""
    /\ Len(baks[Len(baks)].content.rows) = 2

\* the update of the stored record by the argument of the call serializes to
\* what the store file holds
RepeatsStored(arg) ==
    /\ rawFile = ""
    /\ Update(file, arg[1]).err = ""
    /\ JsonRows(Update(file, arg[1]).data) = file

\* C27: an update or upsert whose resulting collection serializes to exactly
\* what the store file holds writes nothing: the store file and the backup
\* files are after the call what they were before it.
C27_NoWriteWhenIdentical ==
    [][(repoKind = "json" /\ last'.op \in {"update", "upsert"} /\ RepeatsStored(last'.arg))
           => /\ file' = file
              /\ rawFile' = rawFile
              /\ baks' = baks]_vars

\* an update has just repeated the values of the only stored record: the only
\* backup is still the empty file that the add of the record found
C27_Witness ==
    /\ repoKind = "json"
    /\ cfg.backup_enabled
    /\ last.op = "update"
    /\ last.err = ""
    /\ file = JsonRows(last.val)
    /\ Len(file) = 1
    /\ Len(baks) = 1
    /\ baks[1].content = Snapshot(<<>>, "")

(***************************************************************************)
(* Claims on what the workflow persists, and in which order                 *)
(***************************************************************************)
PaymentOps == {"record_deposit", "record_balance"}

\* the payments of the persisted quote with the id
StoredPayments(rows, id) ==
    IF StoredQuote(rows, id) = <<>> THEN <<>>
    ELSE IF "payments" \in DOMAIN StoredQuote(rows, id)[1]
    THEN StoredQuote(rows, id)[1]["payments"]
    ELSE <<>>

\* an invoice with the id lies in invoices.json
InvoiceOnDisk(mem, bytes, id) ==
    \E i \in 1..Len(InvoicesOnDisk(mem, bytes)) : InvoicesOnDisk(mem, bytes)[i].id = id

\* every accounting entry names a persisted invoice, and every persisted
\* payment that carries an invoice id has that invoice and its entry persisted
LinksResolve(quotes, invoices, bytes, accounting) ==
    /\ \A i \in 1..Len(accounting) :
          accounting[i].invoice_id # 0
              => InvoiceOnDisk(invoices, bytes, accounting[i].invoice_id)
    /\ \A i \in 1..Len(quotes) :
          \A j \in 1..Len(StoredPayments(quotes, quotes[i].id)) :
              LET pay == StoredPayments(quotes, quotes[i].id)[j]
              IN pay.invoice_id # 0
                    => /\ InvoiceOnDisk(invoices, bytes, pay.invoice_id)
                       /\ \E k \in 1..Len(accounting) :
                              accounting[k].invoice_id = pay.invoice_id

SamePayment(before, after) ==
    /\ "id" \in DOMAIN after
    /\ after.id = before.id
    /\ after.kind = before.kind
    /\ after.amount_cent = before.amount_cent
    /\ (after.invoice_id = before.invoice_id \/ before.invoice_id = 0)

\* C30: over get_by_id, update_quote, record_deposit and record_balance a
\* persisted payment of a quote stays persisted, at its place, with its id,
\* kind and amount; only its invoice id may change, from none to the id of
\* the invoice.
C30_PaymentsAppendOnly ==
    [][fl'.op \in PaymentOps \cup {"get_by_id", "update_quote"}
           => \A i \in 1..Len(file) :
                 /\ "id" \in DOMAIN file[i]
                 /\ Len(StoredPayments(file', file[i].id)) >= Len(StoredPayments(file, file[i].id))
                 /\ \A j \in 1..Len(StoredPayments(file, file[i].id)) :
                       "id" \in DOMAIN StoredPayments(file, file[i].id)[j]
                           => SamePayment(StoredPayments(file, file[i].id)[j],
                                          StoredPayments(file', file[i].id)[j])]_vars

(***************************************************************************)
(* Two threads call one json_repo.JsonRepository: a call reads the file     *)
(* with _read_raw, computes the new list, and only _write_raw takes the      *)
(* lock of the instance                                                      *)
(***************************************************************************)
\* the records and keys the threads call the store with
ThreadItems ==
    { Rec("a", Absent, Absent, Absent, "1"),
      Rec("a", Absent, Absent, Absent, "2"),
      Rec("b", Absent, Absent, Absent, "1") }

ThreadCalls ==
    {[op |-> o, arg |-> <<item>>] : o \in {"add", "update", "upsert"}, item \in ThreadItems}
        \cup {[op |-> "delete", arg |-> <<[id |-> k]>>] : k \in {"a", "b"}}

\* what the call computes from the rows it read
Computed(c, rows) ==
    CASE c.op = "add" -> Add(rows, c.arg[1], FreshUuid(rows))
      [] c.op = "update" -> Update(rows, c.arg[1])
      [] c.op = "upsert" -> Update(rows, c.arg[1])
      [] c.op = "delete" -> Delete(rows, c.arg[1].id)

\* where the call stands once it has read and computed r: before _write_raw,
\* in the except branch of upsert (add comes next), or returned
After(c, r) ==
    IF c.op = "upsert" /\ r.err = "ValueError" THEN "add"
    ELSE IF Writes(c.op, r) THEN "write"
    ELSE "done"

ThreadInit ==
    /\ repoKind = "json"
    /\ file \in {<<>>, <<Rec("a", Absent, Absent, Absent, "1")>>}
    /\ start = file
    /\ th = [t \in Threads |-> NoThread]
    /\ lock = 0
    /\ ldata = <<>>
    /\ last = NoOp
    /\ RecalcIdle
    /\ FlowIdle
    /\ DiskIdle
    /\ MoneyIdle
    /\ InstIdle

\* thread t enters add, update, upsert or delete: data = self._read_raw(),
\* then the new list, all of it outside the lock
ThreadCall(t) ==
    /\ th[t].pc = "idle"
    /\ \E c \in ThreadCalls :
       \E r \in {Computed(c, _read_raw(file, rawFile, corrupt).rows)} :
           th' = [th EXCEPT ![t] = [pc |-> After(c, r), op |-> c.op, arg |-> c.arg,
                                    out |-> r.data]]
    /\ UNCHANGED <<lock, start, flowVars, repoVars, recalcVars, diskVars, moneyVars, instVars>>

\* upsert, update having raised ValueError: self.add(item) reads the file again
ThreadAdd(t) ==
    /\ th[t].pc = "add"
    /\ \E r \in {Add(_read_raw(file, rawFile, corrupt).rows, th[t].arg[1],
                     FreshUuid(_read_raw(file, rawFile, corrupt).rows))} :
           th' = [th EXCEPT ![t].pc = After([op |-> "add"], r), ![t].out = r.data]
    /\ UNCHANGED <<lock, start, flowVars, repoVars, recalcVars, diskVars, moneyVars, instVars>>

\* _write_raw: with self._lock
ThreadAcquire(t) ==
    /\ th[t].pc = "write"
    /\ lock = 0
    /\ lock' = t
    /\ th' = [th EXCEPT ![t].pc = "locked"]
    /\ UNCHANGED <<start, flowVars, repoVars, recalcVars, diskVars, moneyVars, instVars>>

\* _write_raw under the lock: the dump, the comparison, the backup, the
\* write; the lock is released when the block is left
ThreadWrite(t) ==
    /\ th[t].pc = "locked"
    /\ lock = t
    /\ \E w \in {_write_raw(file, rawFile, baks, th[t].out, clock, cfg)} :
          /\ file' = w.rows
          /\ rawFile' = w.raw
          /\ baks' = w.baks
    /\ lock' = 0
    /\ th' = [th EXCEPT ![t].pc = "done"]
    /\ UNCHANGED <<start, flowVars, repoKind, ldata, last, recalcVars, corrupt, clock, cfg,
                   moneyVars, instVars>>

ThreadNext ==
    \E t \in Threads :
        \/ ThreadCall(t)
        \/ ThreadAdd(t)
        \/ ThreadAcquire(t)
        \/ ThreadWrite(t)

SpecThreads == ThreadInit /\ [][ThreadNext]_vars

\* the store file after the call c ran alone on the rows
RanAlone(rows, c) ==
    LET r == Computed(c, rows)
    IN IF c.op = "upsert" /\ r.err = "ValueError"
       THEN JsonRows(Add(rows, c.arg[1], FreshUuid(rows)).data)
       ELSE JsonRows(r.data)

\* the call thread t made
CallOf(t) == [op |-> th[t].op, arg |-> th[t].arg]

\* C23: when two threads have each made a mutating call on the same store
\* instance, the store file holds what the two calls leave when one runs
\* after the other, in one of the two orders: no call's effect is lost.
C23_Serialized ==
    (\A t \in Threads : th[t].pc = "done")
        => file \in {RanAlone(RanAlone(start, CallOf(1)), CallOf(2)),
                     RanAlone(RanAlone(start, CallOf(2)), CallOf(1))}

(***************************************************************************)
(* Two instances of repo.JsonRepository on one file: the InvoiceService of   *)
(* WorkflowService and the InvoiceService of MainWindow, both built when     *)
(* the window is constructed                                                 *)
(***************************************************************************)
\* invoice records: plain mappings, and the dump of an Invoice, whose
\* created_at is a datetime
InstItems ==
    { [id |-> "i1", quote_id |-> "q1"],
      [id |-> "i2", quote_id |-> "q1"],
      [id |-> "i3", quote_id |-> "q1", created_at |-> Now] }

InstInit ==
    /\ repoKind = "legacy"
    /\ file \in {<<>>, <<[id |-> "i0", quote_id |-> "q1"]>>}
    /\ inst = [i \in Instances |-> file]
    /\ who = ""
    /\ ldata = <<>>
    /\ last = NoOp
    /\ RecalcIdle
    /\ FlowIdle
    /\ DiskIdle
    /\ MoneyIdle
    /\ ThreadIdle

\* self.data of the instance and the file as a call through it leaves them:
\* _save dumps self.data of this instance, and raises on a datetime
InstLeaves(i, name, arg, r, saves) ==
    /\ calls < MaxOps
    /\ calls' = calls + 1
    /\ Len(r.data) <= MaxRows
    /\ inst' = [inst EXCEPT ![i] = r.data]
    /\ who' = i
    /\ file' = IF ~saves THEN file ELSE IF Unserializable(r.data) THEN <<>> ELSE r.data
    /\ rawFile' = IF ~saves THEN rawFile ELSE IF Unserializable(r.data) THEN Partial ELSE ""
    /\ last' = Done(name, arg, IF saves /\ Unserializable(r.data)
                               THEN [r EXCEPT !.err = "TypeError"] ELSE r)
    /\ UNCHANGED <<repoKind, ldata, baks, corrupt, clock, cfg, recalcVars, moneyVars,
                   threadVars, entries, settings, qobj, fl>>

InstStep(i, name, arg, r) == InstLeaves(i, name, arg, r, name # "find" /\ r.err = "")

InstAdd(i) == \E item \in InstItems : InstStep(i, "add", <<item>>, LegacyAdd(inst[i], item))

InstUpdate(i) ==
    \E item \in InstItems : InstStep(i, "update", <<item>>, LegacyUpdate(inst[i], item))

InstUpsert(i) ==
    \E item \in InstItems : InstStep(i, "upsert", <<item>>, LegacyUpsert(inst[i], item))

InstDelete(i) ==
    \E item \in InstItems : InstStep(i, "delete", <<item>>, LegacyDelete(inst[i], item.id))

\* list_by_quote(quote_id): self.repo.find(lambda x: x.get("quote_id") == quote_id)
InstFind(i) ==
    InstStep(i, "find", <<[quote_id |-> "q1"]>>,
             Outcome(inst[i], FilterSeq(inst[i], LAMBDA d : Get(d, "quote_id") = "q1"),
                     FALSE, ""))

InstNext ==
    \E i \in Instances :
        \/ InstAdd(i)
        \/ InstUpdate(i)
        \/ InstUpsert(i)
        \/ InstDelete(i)
        \/ InstFind(i)

SpecInstances == InstInit /\ [][InstNext]_vars

\* the ids of the records of the rows
IdsOf(rows) == {rows[k].id : k \in 1..Len(rows)}

\* C25: what was persisted through one store instance is seen through every
\* other instance on the same file: list_by_quote through any instance
\* returns every invoice of the quote that the file holds, and an add,
\* update or upsert through any instance leaves in the file every record
\* that was in it.
C25_SharedFile ==
    [][/\ last'.op = "find"
           => \A k \in 1..Len(InvoicesOnDisk(file, rawFile)) :
                 \E j \in 1..Len(last'.val) : last'.val[j].id = file[k].id
       /\ (last'.op \in {"add", "update", "upsert"} /\ last'.err = "")
           => IdsOf(InvoicesOnDisk(file, rawFile))
                 \subseteq IdsOf(InvoicesOnDisk(file', rawFile'))]_vars

====
